---------------------------- MODULE Spec2Model ----------------------------
(***************************************************************************)
(* A model of the descriptor-and-selection pipeline of gomosaic:           *)
(*   - the Image Heap (compose.go),                                        *)
(*   - the descriptor builder CreateHistograms / CreateLCHs,               *)
(*   - tile extraction DivideImage and InitTilesHelper,                    *)
(*   - the selectors (minimizer, heap + random pick, heap + distance),     *)
(*   - the Image Cache and ComposeMosaic,                                  *)
(*   - the dividers FixedSizeDivider and FixedNumDivider,                  *)
(*   - ParseCommand, the tokenizer of command lines,                       *)
(*   - LCH.Dist and the FSMapper,                                          *)
(*   - the histogram metrics: CanberraDistance and the metric registry,    *)
(*   - Execute, the command loop, with the storage, gch, lch and mosaic    *)
(*     commands.                                                           *)
(* Each component is a state machine of its own (SpecHeap, SpecBuild,      *)
(* SpecTiles, SpecSelect, SpecWalk, SpecCache, SpecCompose, SpecDivider,   *)
(* SpecParse, SpecLch, SpecMapper, SpecMetric, SpecExec) over its own      *)
(* variables; the variables of the other components stay at their initial  *)
(* value.  SpecPipeline chains Divide, SelectImages and ComposeMosaic as a  *)
(* caller does.  SpecBuildLive is the descriptor builder under weak        *)
(* fairness of its steps, for the termination property.                    *)
(***************************************************************************)
EXTENDS Integers, Sequences, FiniteSets, TLC

VARIABLES
    \* ---- Image Heap (compose.go) ----
    h_bound,    \* ImageHeap.bound
    h_interf,   \* ImageHeap.interf: Ptr(heap array), or Nil after h.interf = nil
    h_pushed,   \* the entries given to AddEntry so far, in call order
    h_ret,      \* what the last call returned: Void, <<"view", v>>, or Panic
    h_pc        \* "run", or "panic" once a call dereferenced the nil interf

hvars == <<h_bound, h_interf, h_pushed, h_ret, h_pc>>

VARIABLES
    \* ---- descriptor builder: CreateHistograms / CreateLCHs ----
    b_kind,         \* "hist": CreateHistograms, "lch": CreateLCHs
    b_ids,          \* the argument ids
    b_numRoutines,  \* the argument numRoutines
    b_progressSet,  \* whether the argument progress is non-nil
    b_pc,           \* the driver: "start", "loop", "done"
    b_workers,      \* the worker goroutines: [pc, job, out] each
    b_next,         \* the producer's loop index i
    b_closed,       \* whether the producer has closed the jobs channel
    b_jobs,         \* the jobs channel (capacity BufferSize)
    b_errorChan,    \* the errorChan channel (capacity BufferSize)
    b_res,          \* the array res: position p is b_res[p + 1]
    b_i,            \* the driver's loop index i
    b_err,          \* the driver's variable err
    b_ret,          \* Nil, or <<array, error>> once the call has returned
    b_received,     \* the outcomes the driver has received, in order
    b_sent,         \* per position, the number of outcomes sent for its job
    b_writes,       \* per position, the descriptors written to res there
    b_progress      \* the arguments of the progress calls, in order

bvars == <<b_kind, b_ids, b_numRoutines, b_progressSet, b_pc, b_workers, b_next,
           b_closed, b_jobs, b_errorChan, b_res, b_i, b_err, b_ret,
           b_received, b_sent, b_writes, b_progress>>

VARIABLES
    \* ---- tile extraction: DivideImage ----
    d_dist,         \* the argument distribution: the length of each row
    d_numRoutines,  \* the argument numRoutines
    d_subImager,    \* whether the image's type has a SubImage method
    d_pc,           \* the driver: "idle", "start", "loop", "done"
    d_workers,      \* the worker goroutines: [pc, out] each
    d_pi, d_pj,     \* the producer's row i and column j (j = -1: res[i] not made)
    d_closed,       \* whether the producer has closed the jobs channel
    d_jobs,         \* the jobs channel
    d_errorChan,    \* the errorChan channel
    d_res,          \* the matrix res: a sequence of rows
    d_count,        \* the number of outcomes the driver has received
    d_err,          \* the driver's variable err
    d_ret,          \* Nil, or <<res, err>> once the call has returned
    d_received,     \* the outcomes the driver has received, in order
    \* ---- InitTilesHelper, as called by the InitTiles of a metric ----
    t_metric,       \* "hist": HistogramImageMetric, "lch": LCHImageMetric
    t_dist,         \* the argument dist: the length of each row
    t_numRoutines,  \* the argument numRoutines (the metric's NumRoutines)
    t_pc,           \* the driver: "start", "divide", "loop", then "done"
                    \* (returned), "divfail" (returned DivideImage's error
                    \* before the stage was started) or "panic"
    t_workers,      \* the worker goroutines: [pc, out] each
    t_next,         \* the number of jobs the producer has sent
    t_closed,       \* whether the producer has closed the jobs channel
    t_jobs,         \* the jobs channel
    t_errors,       \* the errors channel
    t_tileData,     \* the metric's TileData matrix
    t_count,        \* the number of outcomes the driver has received
    t_err,          \* the driver's variable err
    t_ret,          \* Nil, or <<err>> once the call has returned
    t_received,     \* the outcomes the driver has received, in order
    t_calls         \* the onTile calls made, as a sequence of <<i, j>>

dvars == <<d_dist, d_numRoutines, d_subImager, d_pc, d_workers, d_pi, d_pj,
           d_closed, d_jobs, d_errorChan, d_res, d_count, d_err, d_ret,
           d_received>>

tvars == <<t_metric, t_dist, t_numRoutines, t_pc, t_workers, t_next, t_closed,
           t_jobs, t_errors, t_tileData, t_count, t_err, t_ret, t_received,
           t_calls>>

VARIABLES
    \* ---- the selectors: SelectImages of ImageMetricMinimizer ("min"), of
    \* HeapImageSelector with RandomHeapSelector ("random") and of
    \* DistanceHeapSelector ("distance") ----
    s_sel,          \* which selector
    s_dist,         \* the argument dist: the length of each row
    s_numImages,    \* storage.NumImages()
    s_k,            \* the selector's K, the bound of the heaps
    s_numRoutines,  \* numRoutines as given to the selector's constructor
    s_pc,           \* the driver: "start", "score", "select", then "done"
                    \* (returned a matrix), "failed" (returned an error) or
                    \* "panic"
    s_workers,      \* the worker goroutines: [pc, out] each
    s_next,         \* the number of jobs the producer has sent
    s_numDone,      \* the variable numDone
    s_closed,       \* whether the producer has closed the jobs channel
    s_jobs,         \* the jobs channel
    s_errors,       \* ComputeHeaps' errors channel
    s_wg,           \* the minimizer's WaitGroup counter
    s_result,       \* the matrix result (res in RandomHeapSelector.Select)
    s_bestValues,   \* the minimizer's matrix bestValues
    s_heaps,        \* ComputeHeaps' matrix heaps: the interf of each heap
    s_err,          \* ComputeHeaps' variable err
    s_views,        \* Nil, or a pointer to the matrix views of GenHeapViews
    s_pos,          \* the number of tiles the selection walk has passed
    s_colDist,      \* RandomHeapSelector.Select's colDist of the current row
    s_assigned,     \* DistanceHeapSelector's currentAssignment
    s_ret,          \* Nil, or <<matrix, err>> once SelectImages has returned
    s_seen,         \* per tile: Nil, or a pointer to the Compare outcomes
                    \* its scan got, by image id
    s_progress      \* the arguments of the progress calls made, in order

sIn == <<s_sel, s_dist, s_numImages, s_k, s_numRoutines>>

svars == <<sIn, s_pc, s_workers, s_next, s_numDone, s_closed, s_jobs, s_errors,
           s_wg, s_result, s_bestValues, s_heaps, s_err, s_views, s_pos,
           s_colDist, s_assigned, s_ret, s_seen, s_progress>>

VARIABLES
    \* ---- the Image Cache (ImageCache) and the goroutines that use it ----
    c_arg,          \* the argument size of NewImageCache
    c_size,         \* the field size
    c_content,      \* the field content: a map from keys to images
    c_insertOrder,  \* the field insertOrder
    c_m,            \* the mutex m: TRUE while it is locked
    c_goroutines,   \* the goroutines that call Get and Put: [pc, op, id,
                    \* width, height, img, ret] each
    c_calls,        \* the number of calls of Get and Put made
    c_puts          \* the keys of the Put calls, in the order in which they
                    \* held the mutex

cvars == <<c_arg, c_size, c_content, c_insertOrder, c_m, c_goroutines,
           c_calls, c_puts>>

VARIABLES
    \* ---- ComposeMosaic with its cache (the variables c_) ----
    m_symbolicTiles, \* the argument symbolicTiles: the selection matrix
    m_mosaicDivison, \* the argument mosaicDivison: the rectangle of each tile
    m_numImages,     \* the storage: the length of the mapper's IDMapping
    m_readable,      \* the ids of the images whose file opens and decodes
    m_pc,            \* "start", "loop", then "done" (returned) or "panic"
    m_i,             \* the loop variable i
    m_j,             \* the loop variable j
    m_res,           \* the image res: [Rect, Pix], Pix the colour of each point
    m_ret,           \* Nil, or <<image, err>> once ComposeMosaic has returned
    m_lookups,       \* the arguments of the calls of cache.Get, in order
    m_loads,         \* the arguments of the calls of storage.LoadImage, in order
    m_errs           \* what the calls of insertTile returned, in order

mvars == <<m_symbolicTiles, m_mosaicDivison, m_numImages, m_readable, m_pc,
           m_i, m_j, m_res, m_ret, m_lookups, m_loads, m_errs>>

VARIABLES
    \* ---- the image dividers FixedNumDivider and FixedSizeDivider ----
    g_divider,      \* the divider: [kind |-> "num", NumX, NumY, Cut] or
                    \* [kind |-> "size", Width, Height, Mode]
    g_bounds,       \* the argument bounds of Divide
    g_pc,           \* "start", then "done"
    g_res           \* Nil, or a pointer to the TileDivision Divide returned
                    \* (a nil TileDivision is the division without rows)

gvars == <<g_divider, g_bounds, g_pc, g_res>>

VARIABLES
    \* ---- ParseCommand, the tokenizer of command lines ----
    k_r,            \* r, the runes of the argument s
    k_state,        \* the variable state of the automaton
    k_i,            \* the loop variable i
    k_currentArg,   \* the variable currentArg
    k_res,          \* the variable res
    k_pc,           \* "loop", "after" (the loop was left by break), "done"
    k_ret           \* Nil, or <<tokens, err>> once ParseCommand has returned

kvars == <<k_r, k_state, k_i, k_currentArg, k_res, k_pc, k_ret>>

VARIABLES
    \* ---- LCH.Dist, the distance of two LCHs (newest version) ----
    l_lch,          \* the receiver lch: its Histograms, each its Entries
    l_other,        \* the argument other
    l_pc,           \* "start", "run", "done", or "panic"
    l_pending,      \* the indexes whose goroutine has not yet run
    l_res,          \* the channel res (capacity len(lch.Histograms))
    l_sum,          \* the variable sum
    l_received,     \* how many values the receive loop has taken
    l_ret,          \* Nil, or <<distance, err>> once Dist has returned
    l_evaluated     \* the indexes on which delta has been called

lvars == <<l_lch, l_other, l_pc, l_pending, l_res, l_sum, l_received, l_ret,
           l_evaluated>>

VARIABLES
    \* ---- FSMapper, the mapping between paths and image ids ----
    f_NameMapping,  \* FSMapper.NameMapping, a function from paths to ids
    f_IDMapping,    \* FSMapper.IDMapping: the id i is at position i + 1
    f_ret,          \* what the last call returned
    f_assigned,     \* every <<id, path>> a Register has returned with true
    f_ops           \* the number of calls made so far

fvars == <<f_NameMapping, f_IDMapping, f_ret, f_assigned, f_ops>>

VARIABLES
    \* ---- the registry of named histogram metrics ----
    r_histogramMetrics, \* the map histogramMetrics: names to metrics
    r_ret,          \* what the last call returned
    r_ops           \* the number of calls made so far

rvars == <<r_histogramMetrics, r_ret, r_ops>>

VARIABLES
    \* ---- Execute, the command loop, and the ExecutorState ----
    e_handler,      \* the CommandHandler: "script" or "repl"
    e_lines,        \* the lines of the state's reader In
    e_pos,          \* how many lines the scanner has read
    e_pc,           \* "loop", or how Execute has ended
    e_Mapper,       \* state.Mapper
    e_GCHStorage,   \* state.GCHStorage: Nil or the storage
    e_LCHStorage,   \* state.LCHStorage: Nil or the storage
    e_log           \* what each iteration of the loop did, in order

evars == <<e_handler, e_lines, e_pos, e_pc, e_Mapper, e_GCHStorage,
           e_LCHStorage, e_log>>

vars == <<hvars, bvars, dvars, tvars, svars, cvars, mvars, gvars, kvars,
         lvars, fvars, rvars, evars>>

\* what the actions of one component leave unchanged: the other components
notHeap == <<bvars, dvars, tvars, svars, cvars, mvars, gvars, kvars,
    lvars, fvars, rvars, evars>>
notBuild == <<hvars, dvars, tvars, svars, cvars, mvars, gvars, kvars,
    lvars, fvars, rvars, evars>>
notDivide == <<hvars, bvars, tvars, svars, cvars, mvars, gvars, kvars,
    lvars, fvars, rvars, evars>>
notTiles == <<hvars, bvars, dvars, svars, cvars, mvars, gvars, kvars,
    lvars, fvars, rvars, evars>>
notDivideTiles == <<hvars, bvars, svars, cvars, mvars, gvars, kvars,
    lvars, fvars, rvars, evars>>
notSelect == <<hvars, bvars, dvars, tvars, sIn, cvars, mvars, gvars, kvars,
    lvars, fvars, rvars, evars>>
notCache == <<hvars, bvars, dvars, tvars, svars, mvars, gvars, kvars,
    lvars, fvars, rvars, evars>>
notCompose == <<hvars, bvars, dvars, tvars, svars, c_goroutines, c_m, c_calls,
               gvars, kvars, lvars, fvars, rvars, evars>>
notDivider == <<hvars, bvars, dvars, tvars, svars, cvars, mvars, kvars,
    lvars, fvars, rvars, evars>>
notParse == <<hvars, bvars, dvars, tvars, svars, cvars, mvars, gvars,
    lvars, fvars, rvars, evars>>
notLch == <<hvars, bvars, dvars, tvars, svars, cvars, mvars, gvars, kvars,
    fvars, rvars, evars>>
notMapper == <<hvars, bvars, dvars, tvars, svars, cvars, mvars, gvars, kvars,
    lvars, rvars, evars>>
notMetric == <<hvars, bvars, dvars, tvars, svars, cvars, mvars, gvars, kvars,
    lvars, fvars, evars>>
notExec == <<hvars, bvars, dvars, tvars, svars, cvars, mvars, gvars, kvars,
    lvars, fvars, rvars>>

-----------------------------------------------------------------------------
(* Bounds of the model *)

\* the largest heap bound tried (bounds -1 .. MaxBound)
MaxBound == 3
\* the number of AddEntry calls on one heap
MaxPushes == 4
\* metric values are 0 .. MaxScore
MaxScore == 2

\* the capacity of the buffered channels.  The program's BufferSize is 1000
\* (utils.go); the model takes a small capacity so that lists longer than the
\* capacity, and so full channels, occur.
BufferSize == 2
\* the longest list of ids given to the descriptor builder
MaxImages == 3
\* the largest worker count tried (numRoutines is in -1 .. MaxRoutines)
MaxRoutines == 2
\* the largest number of tiles of a tile division
MaxTiles == 3
\* the largest number of images of the database the selectors choose from
MaxDB == 2
\* the largest heap bound K of a heap selector (K is in -1 .. MaxK)
MaxK == 2
\* the width and height of a tile, for the tile origins
TileExtent == 10
\* the largest database of the runs that start at the distance selector's walk
MaxWalkDB == 4
\* the largest size given to NewImageCache (sizes are -1 .. MaxCache)
MaxCache == 2
\* the number of calls of Get and Put on one cache
MaxCacheOps == 4
\* the largest width and height of a tile of the mosaic (0 .. MaxTileSize)
MaxTileSize == 2
\* the largest width and height of a rectangle given to a divider
MaxSide == 3
\* the largest number of tiles per direction of a FixedNumDivider
MaxNum == 3
\* the longest command line given to ParseCommand
MaxInput == 5
MaxHistograms == 2
MaxEntries == 2
MaxMapperOps == 4
\* the number of calls made on the metric registry
MaxMetricOps == 3
\* the longest script given to Execute, in lines
MaxLines == 3

(* Values shared by the components *)

\* Values that may be nil are tuples: the empty tuple is nil (a nil pointer, a
\* nil error, a nil slice) and a non-empty tuple is a value.
Nil == <<>>
\* a non-nil pointer to x, and the value it points to
Ptr(x) == <<x>>
Deref(p) == p[1]
\* the return value of a call that returns nothing
Void == <<"void">>
\* the outcome of a call that panicked (nil pointer dereference, index out of range)
Panic == <<"panic">>
\* image.go: NoImageID ImageID = -1
NoImageID == -1

Scores == 0 .. MaxScore

Min2(a, b) == IF a < b THEN a ELSE b

(* The variables of a component while another component runs *)

\* the heap's variables while another component runs (h_pc = idle)
IdleHeap(idle) ==
    /\ h_bound = 0
    /\ h_interf = Nil
    /\ h_pushed = <<>>
    /\ h_ret = Void
    /\ h_pc = idle

\* the builder's variables while another component runs (b_pc = idle)
IdleBuild(idle) ==
    /\ b_kind = "hist"
    /\ b_ids = <<>>
    /\ b_numRoutines = 0
    /\ b_progressSet = FALSE
    /\ b_pc = idle
    /\ b_workers = <<>>
    /\ b_next = 0
    /\ b_closed = FALSE
    /\ b_jobs = <<>>
    /\ b_errorChan = <<>>
    /\ b_res = <<>>
    /\ b_i = 0
    /\ b_err = Nil
    /\ b_ret = Nil
    /\ b_received = <<>>
    /\ b_sent = <<>>
    /\ b_writes = <<>>
    /\ b_progress = <<>>

\* DivideImage's variables while it is not called (d_pc = idle)
IdleDivide(idle) ==
    /\ d_dist = <<>>
    /\ d_numRoutines = 0
    /\ d_subImager = TRUE
    /\ d_pc = idle
    /\ d_workers = <<>>
    /\ d_pi = 0
    /\ d_pj = -1
    /\ d_closed = FALSE
    /\ d_jobs = <<>>
    /\ d_errorChan = <<>>
    /\ d_res = <<>>
    /\ d_count = 0
    /\ d_err = Nil
    /\ d_ret = Nil
    /\ d_received = <<>>

\* InitTilesHelper's variables while another component runs (t_pc = idle)
IdleTiles(idle) ==
    /\ t_metric = "hist"
    /\ t_dist = <<>>
    /\ t_numRoutines = 0
    /\ t_pc = idle
    /\ t_workers = <<>>
    /\ t_next = 0
    /\ t_closed = FALSE
    /\ t_jobs = <<>>
    /\ t_errors = <<>>
    /\ t_tileData = <<>>
    /\ t_count = 0
    /\ t_err = Nil
    /\ t_ret = Nil
    /\ t_received = <<>>
    /\ t_calls = <<>>

\* the selectors' variables while another component runs (s_pc = idle)
IdleSelect(idle) ==
    /\ s_sel = "min"
    /\ s_dist = <<>>
    /\ s_numImages = 0
    /\ s_k = 0
    /\ s_numRoutines = 0
    /\ s_pc = idle
    /\ s_workers = <<>>
    /\ s_next = 0
    /\ s_numDone = 0
    /\ s_closed = FALSE
    /\ s_jobs = <<>>
    /\ s_errors = <<>>
    /\ s_wg = 0
    /\ s_result = <<>>
    /\ s_bestValues = <<>>
    /\ s_heaps = <<>>
    /\ s_err = Nil
    /\ s_views = Nil
    /\ s_pos = 0
    /\ s_colDist = <<>>
    /\ s_assigned = <<>>
    /\ s_ret = Nil
    /\ s_seen = <<>>
    /\ s_progress = <<>>

\* the cache's variables while another component runs: the cache of
\* NewImageCache(size) that no goroutine uses
IdleCache(size) ==
    /\ c_arg = size
    /\ c_size = 1
    /\ c_content = <<>>
    /\ c_insertOrder = <<>>
    /\ c_m = FALSE
    /\ c_goroutines = <<>>
    /\ c_calls = 0
    /\ c_puts = <<>>

\* the composer's variables while another component runs (m_pc = idle)
IdleCompose(idle) ==
    /\ m_symbolicTiles = <<>>
    /\ m_mosaicDivison = <<>>
    /\ m_numImages = 0
    /\ m_readable = {}
    /\ m_pc = idle
    /\ m_i = 0
    /\ m_j = 0
    /\ m_res = Nil
    /\ m_ret = Nil
    /\ m_lookups = <<>>
    /\ m_loads = <<>>
    /\ m_errs = <<>>

\* the dividers' variables while another component runs (g_pc = idle)
IdleDivider(idle) ==
    /\ g_divider = [kind |-> "num", NumX |-> 0, NumY |-> 0, Cut |-> FALSE]
    /\ g_bounds = [Min |-> [X |-> 0, Y |-> 0], Max |-> [X |-> 0, Y |-> 0]]
    /\ g_pc = idle
    /\ g_res = Nil

\* the tokenizer's variables while another component runs (k_pc = idle)
IdleParse(idle) ==
    /\ k_r = <<>>
    /\ k_state = 0
    /\ k_i = 0
    /\ k_currentArg = <<>>
    /\ k_res = <<>>
    /\ k_pc = idle
    /\ k_ret = Nil

\* the variables of LCH.Dist while another component runs (l_pc = idle)
IdleLch(idle) ==
    /\ l_lch = <<>>
    /\ l_other = <<>>
    /\ l_pc = idle
    /\ l_pending = {}
    /\ l_res = <<>>
    /\ l_sum = 0
    /\ l_received = 0
    /\ l_ret = Nil
    /\ l_evaluated = {}

\* the mapper's variables while another component runs (f_ret = idle)
IdleMapper(idle) ==
    /\ f_NameMapping = {}
    /\ f_IDMapping = <<>>
    /\ f_ret = <<idle>>
    /\ f_assigned = {}
    /\ f_ops = 0

\* the registry's variables while another component runs (r_ret = idle)
IdleMetric(idle) ==
    /\ r_histogramMetrics = <<>>
    /\ r_ret = <<idle>>
    /\ r_ops = 0

\* the command loop's variables while another component runs (e_pc = idle)
IdleExec(idle) ==
    /\ e_handler = idle
    /\ e_lines = <<>>
    /\ e_pos = 0
    /\ e_pc = idle
    /\ e_Mapper = <<>>
    /\ e_GCHStorage = <<>>
    /\ e_LCHStorage = <<>>
    /\ e_log = <<>>

-----------------------------------------------------------------------------
(***************************************************************************)
(* Image Heap.  The heap array is a sequence; Go's 0-based index i is the  *)
(* sequence position i + 1.                                                *)
(***************************************************************************)

\* NewImageHeapEntry: an entry is an image id and its metric value
NewImageHeapEntry(image, value) == [Image |-> image, Value |-> value]

\* Less with the comparison turned round (a min-heap)
LessMin(h, i, j) == h[i + 1].Value < h[j + 1].Value

\* imageHeapInterface.Less: h[i].Value > h[j].Value  (a max-heap on Value)
Less(h, i, j) == h[i + 1].Value > h[j + 1].Value

\* imageHeapInterface.Swap
Swap(h, i, j) == [h EXCEPT ![i + 1] = h[j + 1], ![j + 1] = h[i + 1]]

\* Go's (j - 1) / 2 truncates toward zero: the parent of the root is the root
Parent(j) == IF j = 0 THEN 0 ELSE (j - 1) \div 2

\* container/heap up(h, j)
RECURSIVE Up(_, _)
Up(h, j) ==
    LET i == Parent(j)
    IN  IF i = j \/ ~Less(h, j, i) THEN h ELSE Up(Swap(h, i, j), i)

\* container/heap down(h, i, n)
RECURSIVE Down(_, _, _)
Down(h, i, n) ==
    LET j1 == 2 * i + 1
    IN  IF j1 >= n THEN h
        ELSE LET j2 == j1 + 1
                 j  == IF j2 < n /\ Less(h, j2, j1) THEN j2 ELSE j1
             IN  IF ~Less(h, j, i) THEN h ELSE Down(Swap(h, i, j), j, n)

\* container/heap Push(h, x): h.Push(x) appends, then up(h, Len - 1)
HeapPush(h, x) == Up(Append(h, x), Len(h))

\* container/heap Pop(h): Swap(0, n); down(0, n); h.Pop() cuts the last entry
\* off and returns it.  The result is <<the heap left, the entry popped>>.
HeapPop(h) ==
    LET n == Len(h) - 1
        d == Down(Swap(h, 0, n), 0, n)
    IN  <<SubSeq(d, 1, n), d[n + 1]>>

\* AddEntry's loop: for h.interf.Len() > h.bound { heap.Pop(h.interf) }
RECURSIVE Truncate(_, _)
Truncate(h, bound) ==
    IF Len(h) > bound THEN Truncate(HeapPop(h)[1], bound) ELSE h

\* AddEntry that leaves a full heap as it is: the new entry is dropped
AddEntryKeepsFirst(interf, bound, entry) ==
    IF bound >= 1 /\ Len(Deref(interf)) >= bound
    THEN interf
    ELSE Ptr(HeapPush(Deref(interf), entry))

\* AddEntry on a non-nil interf: push, then the switch on the bound.
\* The result is the new value of h.interf.
AddEntryTo(interf, bound, entry) ==
    LET pushed == HeapPush(Deref(interf), entry)
    IN  CASE bound = 0  -> Nil
          [] bound >= 1 -> Ptr(Truncate(pushed, bound))
          [] OTHER      -> Ptr(pushed)

\* GetView's loop on the copy tmp: x := heap.Pop(&tmp); res[n-i-1] = x
RECURSIVE ViewOf(_)
ViewOf(tmp) ==
    IF Len(tmp) = 0 THEN <<>>
    ELSE LET p == HeapPop(tmp) IN Append(ViewOf(p[1]), p[2])

\* NewImageHeap(bound): an empty interf and the bound
InitHeap ==
    /\ h_bound \in -1 .. MaxBound
    /\ h_interf = Ptr(<<>>)
    /\ h_pushed = <<>>
    /\ h_ret = Void
    /\ h_pc = "run"
    /\ IdleBuild("idle")
    /\ IdleDivide("idle")
    /\ IdleTiles("idle")
    /\ IdleSelect("idle")
    /\ IdleCache(0)
    /\ IdleCompose("idle")
    /\ IdleDivider("idle")
    /\ IdleParse("idle")
    /\ IdleLch("idle")
    /\ IdleMapper("idle")
    /\ IdleMetric("idle")
    /\ IdleExec("idle")

\* ImageHeap.AddEntry(entry).  heap.Push(h.interf, entry) dereferences
\* h.interf, so it panics when an earlier call set h.interf = nil.
\* Entries carry ascending image ids, as computeSingleHeap pushes them.
AddEntry ==
    /\ h_pc = "run"
    /\ Len(h_pushed) < MaxPushes
    /\ \E value \in Scores :
          LET entry == NewImageHeapEntry(Len(h_pushed), value)
          IN  /\ h_pushed' = Append(h_pushed, entry)
              /\ IF h_interf = Nil
                 THEN /\ h_pc' = "panic"
                      /\ h_ret' = Panic
                      /\ UNCHANGED h_interf
                 ELSE /\ h_interf' = AddEntryTo(h_interf, h_bound, entry)
                      /\ h_ret' = Void
                      /\ UNCHANGED h_pc
    /\ UNCHANGED <<h_bound, notHeap>>

\* ImageHeap.GetView().  h.interf.Len() dereferences h.interf.
GetView ==
    /\ h_pc = "run"
    /\ IF h_interf = Nil
       THEN /\ h_pc' = "panic"
            /\ h_ret' = Panic
       ELSE /\ h_ret' = <<"view", ViewOf(Deref(h_interf))>>
            /\ UNCHANGED h_pc
    /\ UNCHANGED <<h_bound, h_interf, h_pushed, notHeap>>

NextHeap == AddEntry \/ GetView

-----------------------------------------------------------------------------
(***************************************************************************)
(* Descriptor builder: CreateHistograms (kind "hist") and CreateLCHs (kind *)
(* "lch").  A driver, one producer goroutine and the worker goroutines     *)
(* communicate through the buffered channels jobs and errorChan.           *)
(***************************************************************************)

\* a head of the function that takes the worker count as it is given
NormRoutinesAsGiven(numRoutines) == numRoutines

\* the worker-count policy at the head of the function:
\* if numRoutines <= 0 { numRoutines = 1 }
NormRoutines(numRoutines) == IF numRoutines <= 0 THEN 1 ELSE numRoutines

\* IDList(storage): the ids 0 .. n-1 in order, and the same list reversed
IDList(n) == [p \in 1 .. n |-> p - 1]
Reversed(n) == [p \in 1 .. n |-> n - p]

\* the descriptor computed for image id: GenHistogram(image, k) (normalized
\* or not), or GenLCH(scheme, image, k, normalize)
Descriptor(kind, id) == <<kind, id>>

\* what a worker's job can come to: the image loads and the descriptor is
\* generated, storage.LoadImage fails, or (CreateLCHs only) GenLCH fails
JobOutcomes(kind) ==
    IF kind = "hist" THEN {"ok", "LoadImage"} ELSE {"ok", "LoadImage", "GenLCH"}

\* the error of a failed job: imageErr or lchErr, of the image at position pos
JobError(what, pos) == <<what, pos>>

\* RecordError with DivideImage's condition (err != nil): err is never set
RecordErrorInverted(err, nextErr) ==
    IF nextErr # Nil /\ err # Nil THEN nextErr ELSE err

\* the driver's update of err on an outcome:
\* if nextErr != nil && err == nil { err = nextErr }
RecordError(err, nextErr) ==
    IF nextErr # Nil /\ err = Nil THEN nextErr ELSE err

\* WritePos indexing res by the image id instead of the position
WritePosById(job) == job.id

\* the position a worker writes its descriptor to: res[next.pos] = hist
WritePos(job) == job.pos

\* LoopContinues stopping one outcome early
LoopContinuesShort(i, numImages) == i < numImages - 1

\* the driver's loop condition: for i := 0; i < numImages; i++
LoopContinues(i, numImages) == i < numImages

\* the value the builder returns: (nil, err) on an error, else (res, nil)
\* (the array is given as Ptr(res): an empty array is not the nil array)
BuildReturn(res, err) == IF err # Nil THEN <<Nil, err>> ELSE <<Ptr(res), Nil>>

\* the argument of the progress call made after an outcome: progress(i)
ProgressArg(i) == i

InitBuild ==
    /\ b_kind \in {"hist", "lch"}
    /\ \E n \in 0 .. MaxImages : b_ids \in {IDList(n), Reversed(n)}
    /\ b_numRoutines \in -1 .. MaxRoutines
    /\ b_progressSet \in BOOLEAN
    /\ b_pc = "start"
    /\ b_workers = <<>>
    /\ b_next = 0
    /\ b_closed = FALSE
    /\ b_jobs = <<>>
    /\ b_errorChan = <<>>
    /\ b_res = <<>>
    /\ b_i = 0
    /\ b_err = Nil
    /\ b_ret = Nil
    /\ b_received = <<>>
    /\ b_sent = <<>>
    /\ b_writes = <<>>
    /\ b_progress = <<>>
    /\ IdleHeap("idle")
    /\ IdleDivide("idle")
    /\ IdleTiles("idle")
    /\ IdleSelect("idle")
    /\ IdleCache(0)
    /\ IdleCompose("idle")
    /\ IdleDivider("idle")
    /\ IdleParse("idle")
    /\ IdleLch("idle")
    /\ IdleMapper("idle")
    /\ IdleMetric("idle")
    /\ IdleExec("idle")

\* The head of the function: the worker count is normalized, res and the
\* channels are made, the workers and the producer are started.
BuildStart ==
    /\ b_pc = "start"
    /\ b_pc' = "loop"
    /\ b_res' = [p \in 1 .. Len(b_ids) |-> Nil]
    /\ b_workers' = [w \in 1 .. NormRoutines(b_numRoutines) |->
                        [pc |-> "recv", job |-> Nil, out |-> Nil]]
    /\ b_sent' = [p \in 1 .. Len(b_ids) |-> 0]
    /\ b_writes' = [p \in 1 .. Len(b_ids) |-> <<>>]
    /\ UNCHANGED <<notBuild, b_kind, b_ids, b_numRoutines, b_progressSet, b_next, b_closed,
                   b_jobs, b_errorChan, b_i, b_err, b_ret, b_received, b_progress>>

\* The producer: for i, id := range ids { jobs <- job{pos: i, id: id} }
\* (blocks while the channel is full)
BuildProduce ==
    /\ b_pc # "start"
    /\ b_next < Len(b_ids)
    /\ Len(b_jobs) < BufferSize
    /\ b_jobs' = Append(b_jobs, [pos |-> b_next, id |-> b_ids[b_next + 1]])
    /\ b_next' = b_next + 1
    /\ UNCHANGED <<notBuild, b_kind, b_ids, b_numRoutines, b_progressSet, b_pc, b_workers,
                   b_closed, b_errorChan, b_res, b_i, b_err, b_ret, b_received,
                   b_sent, b_writes, b_progress>>

\* The producer: close(jobs) after the last job
BuildClose ==
    /\ b_pc # "start"
    /\ b_next = Len(b_ids)
    /\ ~b_closed
    /\ b_closed' = TRUE
    /\ UNCHANGED <<notBuild, b_kind, b_ids, b_numRoutines, b_progressSet, b_pc, b_workers,
                   b_next, b_jobs, b_errorChan, b_res, b_i, b_err, b_ret,
                   b_received, b_sent, b_writes, b_progress>>

\* A worker takes the next job (for next := range jobs), loads the image and
\* generates the descriptor.  On a failure it holds the error to send; on
\* success it writes the descriptor to res and holds nil to send.
BuildWork(w) ==
    /\ b_workers[w].pc = "recv"
    /\ b_jobs # <<>>
    /\ LET job == Head(b_jobs)
       IN  /\ b_jobs' = Tail(b_jobs)
           /\ \E what \in JobOutcomes(b_kind) :
                 IF what = "ok"
                 THEN /\ b_res' = [b_res EXCEPT ![WritePos(job) + 1] =
                                        Descriptor(b_kind, job.id)]
                      /\ b_writes' = [b_writes EXCEPT ![WritePos(job) + 1] =
                                        Append(@, Descriptor(b_kind, job.id))]
                      /\ b_workers' = [b_workers EXCEPT ![w] =
                            [pc |-> "send", job |-> job, out |-> Nil]]
                 ELSE /\ b_workers' = [b_workers EXCEPT ![w] =
                            [pc |-> "send", job |-> job,
                             out |-> JobError(what, job.pos)]]
                      /\ UNCHANGED <<b_res, b_writes>>
    /\ UNCHANGED <<notBuild, b_kind, b_ids, b_numRoutines, b_progressSet, b_pc, b_next,
                   b_closed, b_errorChan, b_i, b_err, b_ret, b_received, b_sent,
                   b_progress>>

\* A worker sends its job's outcome: errorChan <- imageErr / lchErr / nil
\* (blocks while the channel is full)
BuildSend(w) ==
    /\ b_workers[w].pc = "send"
    /\ Len(b_errorChan) < BufferSize
    /\ b_errorChan' = Append(b_errorChan, b_workers[w].out)
    /\ b_sent' = [b_sent EXCEPT ![b_workers[w].job.pos + 1] = @ + 1]
    /\ b_workers' = [b_workers EXCEPT ![w] =
                        [pc |-> "recv", job |-> Nil, out |-> Nil]]
    /\ UNCHANGED <<notBuild, b_kind, b_ids, b_numRoutines, b_progressSet, b_pc, b_next,
                   b_closed, b_jobs, b_res, b_i, b_err, b_ret, b_received,
                   b_writes, b_progress>>

\* A worker leaves its range loop: jobs is closed and drained
BuildExit(w) ==
    /\ b_workers[w].pc = "recv"
    /\ b_jobs = <<>>
    /\ b_closed
    /\ b_workers' = [b_workers EXCEPT ![w].pc = "exit"]
    /\ UNCHANGED <<notBuild, b_kind, b_ids, b_numRoutines, b_progressSet, b_pc, b_next,
                   b_closed, b_jobs, b_errorChan, b_res, b_i, b_err, b_ret,
                   b_received, b_sent, b_writes, b_progress>>

\* The driver's loop body: nextErr := <-errorChan; the first error is kept;
\* progress(i) is called when progress is not nil
BuildReceive ==
    /\ b_pc = "loop"
    /\ LoopContinues(b_i, Len(b_ids))
    /\ b_errorChan # <<>>
    /\ LET nextErr == Head(b_errorChan)
       IN  /\ b_errorChan' = Tail(b_errorChan)
           /\ b_err' = RecordError(b_err, nextErr)
           /\ b_received' = Append(b_received, nextErr)
    /\ b_progress' = IF b_progressSet
                     THEN Append(b_progress, ProgressArg(b_i))
                     ELSE b_progress
    /\ b_i' = b_i + 1
    /\ UNCHANGED <<notBuild, b_kind, b_ids, b_numRoutines, b_progressSet, b_pc, b_workers,
                   b_next, b_closed, b_jobs, b_res, b_ret, b_sent, b_writes>>

\* The driver leaves the loop after numImages outcomes and returns
BuildFinish ==
    /\ b_pc = "loop"
    /\ ~LoopContinues(b_i, Len(b_ids))
    /\ b_pc' = "done"
    /\ b_ret' = BuildReturn(b_res, b_err)
    /\ UNCHANGED <<notBuild, b_kind, b_ids, b_numRoutines, b_progressSet, b_workers,
                   b_next, b_closed, b_jobs, b_errorChan, b_res, b_i, b_err,
                   b_received, b_sent, b_writes, b_progress>>

NextBuild ==
    \/ BuildStart
    \/ BuildProduce
    \/ BuildClose
    \/ \E w \in 1 .. Len(b_workers) : BuildWork(w)
    \/ \E w \in 1 .. Len(b_workers) : BuildSend(w)
    \/ \E w \in 1 .. Len(b_workers) : BuildExit(w)
    \/ BuildReceive
    \/ BuildFinish

-----------------------------------------------------------------------------
(***************************************************************************)
(* Tile divisions.  A division is given by the lengths of its rows; tile   *)
(* (i, j) is row i, column j, both counted from 0.                         *)
(***************************************************************************)

\* the divisions of rows x cols tiles with at most MaxTiles tiles
Divisions ==
    {[i \in 1 .. rows |-> cols] :
        <<rows, cols>> \in {rc \in (0 .. MaxTiles) \X (0 .. MaxTiles) :
                               rc[1] * rc[2] <= MaxTiles}}

\* the number of tiles of the first n rows of a division
RECURSIVE TilesIn(_, _)
TilesIn(dist, n) == IF n = 0 THEN 0 ELSE TilesIn(dist, n - 1) + dist[n]

\* a count that misses the last tile
NumTilesLess(dist) ==
    IF TilesIn(dist, Len(dist)) > 0 THEN TilesIn(dist, Len(dist)) - 1 ELSE 0

NumTiles(dist) == TilesIn(dist, Len(dist))

\* the tiles of a division in row-major order, as the nested range loops of
\* the producers enumerate them
RECURSIVE RowMajor(_, _)
RowMajor(dist, n) ==
    IF n = 0 THEN <<>>
    ELSE RowMajor(dist, n - 1) \o [j \in 1 .. dist[n] |-> [i |-> n - 1, j |-> j - 1]]

\* a producer that sends the first tile once per tile
TileJobsFirst(dist) == [t \in 1 .. NumTiles(dist) |-> [i |-> 0, j |-> 0]]

TileJobs(dist) == RowMajor(dist, Len(dist))

\* a matrix with the row lengths of dist and v in every cell
Matrix(dist, v) == [i \in 1 .. Len(dist) |-> [j \in 1 .. dist[i] |-> v]]

\* m with cell (i, j) set to v
SetCell(m, i, j, v) == [m EXCEPT ![i + 1][j + 1] = v]

-----------------------------------------------------------------------------
(***************************************************************************)
(* DivideImage (divide.go)                                                 *)
(***************************************************************************)

\* SubImage(img, r): the sub-image of tile (i, j) and a nil error, or, for an
\* image type without a SubImage method, a nil image and an error
SubImage(subImager, i, j) ==
    IF subImager THEN [img |-> <<"sub", i, j>>, err |-> Nil]
    ELSE [img |-> Nil, err |-> <<"SubImage", i, j>>]

\* DivideImage's update of err on an outcome:
\* if nextErr != nil && err != nil { err = nextErr }
RecordErrorDivide(err, nextErr) ==
    IF nextErr # Nil /\ err # Nil THEN nextErr ELSE err

\* (The goroutines of DivideImage that are still running when the caller goes
\* on stop with the program when a later step panics: t_pc = "panic".)

\* DivideImage is called: res := make(Tiles, len(distribution)), the channels
\* are made, NormRoutines(numRoutines) workers and the producer are started
DivStart ==
    /\ d_pc = "start"
    /\ d_pc' = "loop"
    /\ d_res' = [i \in 1 .. Len(d_dist) |-> <<>>]
    /\ d_workers' = [w \in 1 .. NormRoutines(d_numRoutines) |->
                        [pc |-> "recv", out |-> Nil]]
    /\ UNCHANGED <<notDivide, d_dist, d_numRoutines, d_subImager, d_pi, d_pj,
                   d_closed, d_jobs, d_errorChan, d_count, d_err, d_ret,
                   d_received>>

\* The producer at the head of a row: res[i] = make([]image.Image, len(col))
DivMakeRow ==
    /\ d_pc \in {"loop", "done"}
    /\ t_pc # "panic"
    /\ d_pi < Len(d_dist)
    /\ d_pj = -1
    /\ d_res' = [d_res EXCEPT ![d_pi + 1] = [j \in 1 .. d_dist[d_pi + 1] |-> Nil]]
    /\ IF d_dist[d_pi + 1] > 0
       THEN d_pj' = 0 /\ UNCHANGED d_pi
       ELSE d_pi' = d_pi + 1 /\ UNCHANGED d_pj
    /\ UNCHANGED <<notDivide, d_dist, d_numRoutines, d_subImager, d_pc,
                   d_workers, d_closed, d_jobs, d_errorChan, d_count, d_err,
                   d_ret, d_received>>

\* The producer in a row: jobs <- job{i, j}
DivProduce ==
    /\ d_pc \in {"loop", "done"}
    /\ t_pc # "panic"
    /\ d_pi < Len(d_dist)
    /\ d_pj >= 0
    /\ Len(d_jobs) < BufferSize
    /\ d_jobs' = Append(d_jobs, [i |-> d_pi, j |-> d_pj])
    /\ IF d_pj + 1 < d_dist[d_pi + 1]
       THEN d_pj' = d_pj + 1 /\ UNCHANGED d_pi
       ELSE d_pi' = d_pi + 1 /\ d_pj' = -1
    /\ UNCHANGED <<notDivide, d_dist, d_numRoutines, d_subImager, d_pc,
                   d_workers, d_closed, d_errorChan, d_res, d_count, d_err,
                   d_ret, d_received>>

\* The producer: close(jobs)
DivClose ==
    /\ d_pc \in {"loop", "done"}
    /\ t_pc # "panic"
    /\ d_pi = Len(d_dist)
    /\ ~d_closed
    /\ d_closed' = TRUE
    /\ UNCHANGED <<notDivide, d_dist, d_numRoutines, d_subImager, d_pc,
                   d_workers, d_pi, d_pj, d_jobs, d_errorChan, d_res, d_count,
                   d_err, d_ret, d_received>>

\* A worker takes the next job, computes the sub-image and stores it:
\* subImg, subErr := SubImage(img, r); res[next.i][next.j] = subImg
DivWork(w) ==
    /\ t_pc # "panic"
    /\ d_workers[w].pc = "recv"
    /\ d_jobs # <<>>
    /\ LET next == Head(d_jobs)
           sub == SubImage(d_subImager, next.i, next.j)
       IN  /\ d_jobs' = Tail(d_jobs)
           /\ d_res' = SetCell(d_res, next.i, next.j, sub.img)
           /\ d_workers' = [d_workers EXCEPT ![w] = [pc |-> "send", out |-> sub.err]]
    /\ UNCHANGED <<notDivide, d_dist, d_numRoutines, d_subImager, d_pc, d_pi,
                   d_pj, d_closed, d_errorChan, d_count, d_err, d_ret,
                   d_received>>

\* A worker sends the outcome: errorChan <- subErr
DivSend(w) ==
    /\ t_pc # "panic"
    /\ d_workers[w].pc = "send"
    /\ Len(d_errorChan) < BufferSize
    /\ d_errorChan' = Append(d_errorChan, d_workers[w].out)
    /\ d_workers' = [d_workers EXCEPT ![w] = [pc |-> "recv", out |-> Nil]]
    /\ UNCHANGED <<notDivide, d_dist, d_numRoutines, d_subImager, d_pc, d_pi,
                   d_pj, d_closed, d_jobs, d_res, d_count, d_err, d_ret,
                   d_received>>

\* A worker leaves its range loop: jobs is closed and drained
DivExit(w) ==
    /\ t_pc # "panic"
    /\ d_workers[w].pc = "recv"
    /\ d_jobs = <<>>
    /\ d_closed
    /\ d_workers' = [d_workers EXCEPT ![w].pc = "exit"]
    /\ UNCHANGED <<notDivide, d_dist, d_numRoutines, d_subImager, d_pc, d_pi,
                   d_pj, d_closed, d_jobs, d_errorChan, d_res, d_count, d_err,
                   d_ret, d_received>>

\* The driver's loop body, once per tile: nextErr := <-errorChan, then the
\* update of err
DivReceive ==
    /\ d_pc = "loop"
    /\ d_count < NumTiles(d_dist)
    /\ d_errorChan # <<>>
    /\ LET nextErr == Head(d_errorChan)
       IN  /\ d_errorChan' = Tail(d_errorChan)
           /\ d_err' = RecordErrorDivide(d_err, nextErr)
           /\ d_received' = Append(d_received, nextErr)
    /\ d_count' = d_count + 1
    /\ UNCHANGED <<notDivide, d_dist, d_numRoutines, d_subImager, d_pc,
                   d_workers, d_pi, d_pj, d_closed, d_jobs, d_res, d_ret>>

\* The driver has received one outcome per tile: return res, err
DivFinish ==
    /\ d_pc = "loop"
    /\ d_count = NumTiles(d_dist)
    /\ d_pc' = "done"
    /\ d_ret' = <<d_res, d_err>>
    /\ UNCHANGED <<notDivide, d_dist, d_numRoutines, d_subImager, d_workers,
                   d_pi, d_pj, d_closed, d_jobs, d_errorChan, d_res, d_count,
                   d_err, d_received>>

NextDivide ==
    \/ DivStart
    \/ DivMakeRow
    \/ DivProduce
    \/ DivClose
    \/ \E w \in 1 .. Len(d_workers) : DivWork(w)
    \/ \E w \in 1 .. Len(d_workers) : DivSend(w)
    \/ \E w \in 1 .. Len(d_workers) : DivExit(w)
    \/ DivReceive
    \/ DivFinish

-----------------------------------------------------------------------------
(***************************************************************************)
(* InitTilesHelper (select.go), called by HistogramImageMetric.InitTiles   *)
(* and LCHImageMetric.InitTiles with the metric's NumRoutines              *)
(***************************************************************************)

\* the workers InitTilesHelper starts: for w := 0; w < numRoutines; w++
\* (numRoutines as given: NewHistogramImageMetric and NewLCHImageMetric store
\* it as it is)
HelperRoutines(numRoutines) == IF numRoutines < 0 THEN 0 ELSE numRoutines

\* what onTile can come to for a tile image: HistogramImageMetric's onTile
\* stores the histogram and returns nil; LCHImageMetric's onTile returns
\* GenLCH's error or stores the LCH
OnTileOutcomes(metric) == IF metric = "hist" THEN {"ok"} ELSE {"ok", "GenLCH"}

\* the tile descriptor onTile computes for tile (i, j)
TileDescriptor(metric, i, j) == <<metric, i, j>>

InitTiles ==
    /\ t_metric \in {"hist", "lch"}
    /\ t_dist \in Divisions
    /\ t_numRoutines \in -1 .. MaxRoutines
    /\ t_pc = "start"
    /\ t_workers = <<>>
    /\ t_next = 0
    /\ t_closed = FALSE
    /\ t_jobs = <<>>
    /\ t_errors = <<>>
    /\ t_tileData = <<>>
    /\ t_count = 0
    /\ t_err = Nil
    /\ t_ret = Nil
    /\ t_received = <<>>
    /\ t_calls = <<>>
    /\ d_subImager \in BOOLEAN
    /\ d_dist = <<>>
    /\ d_numRoutines = 0
    /\ d_pc = "idle"
    /\ d_workers = <<>>
    /\ d_pi = 0
    /\ d_pj = -1
    /\ d_closed = FALSE
    /\ d_jobs = <<>>
    /\ d_errorChan = <<>>
    /\ d_res = <<>>
    /\ d_count = 0
    /\ d_err = Nil
    /\ d_ret = Nil
    /\ d_received = <<>>
    /\ IdleHeap("idle")
    /\ IdleBuild("idle")
    /\ IdleSelect("idle")
    /\ IdleCache(0)
    /\ IdleCompose("idle")
    /\ IdleDivider("idle")
    /\ IdleParse("idle")
    /\ IdleLch("idle")
    /\ IdleMapper("idle")
    /\ IdleMetric("idle")
    /\ IdleExec("idle")

\* tiles, tilesErr := DivideImage(query, dist, numRoutines)
TilesCallDivide ==
    /\ t_pc = "start"
    /\ t_pc' = "divide"
    /\ d_pc' = "start"
    /\ d_dist' = t_dist
    /\ d_numRoutines' = t_numRoutines
    /\ UNCHANGED <<notDivideTiles, d_subImager, d_workers, d_pi, d_pj, d_closed,
                   d_jobs, d_errorChan, d_res, d_count, d_err, d_ret, d_received,
                   t_metric, t_dist, t_numRoutines, t_workers, t_next, t_closed,
                   t_jobs, t_errors, t_tileData, t_count, t_err, t_ret,
                   t_received, t_calls>>

\* DivideImage has returned.  On tilesErr the helper returns it; else
\* init(tiles) allocates TileData with the shape of tiles, the channels are
\* made, and the workers and the producer are started.
TilesInit ==
    /\ t_pc = "divide"
    /\ d_pc = "done"
    /\ IF d_ret[2] # Nil
       THEN /\ t_pc' = "divfail"
            /\ t_ret' = <<d_ret[2]>>
            /\ UNCHANGED <<t_tileData, t_workers>>
       ELSE /\ t_pc' = "loop"
            /\ t_tileData' = [i \in 1 .. Len(d_res) |->
                                 [j \in 1 .. Len(d_res[i]) |-> Nil]]
            /\ t_workers' = [w \in 1 .. HelperRoutines(t_numRoutines) |->
                                [pc |-> "recv", out |-> Nil]]
            /\ UNCHANGED t_ret
    /\ UNCHANGED <<notTiles, t_metric, t_dist, t_numRoutines, t_next, t_closed,
                   t_jobs, t_errors, t_count, t_err, t_received, t_calls>>

\* The producer: jobs <- job{i, j} for the tiles in row-major order
TilesProduce ==
    /\ t_pc \in {"loop", "done"}
    /\ t_next < NumTiles(t_dist)
    /\ Len(t_jobs) < BufferSize
    /\ t_jobs' = Append(t_jobs, TileJobs(t_dist)[t_next + 1])
    /\ t_next' = t_next + 1
    /\ UNCHANGED <<notTiles, t_metric, t_dist, t_numRoutines, t_pc, t_workers,
                   t_closed, t_errors, t_tileData, t_count, t_err, t_ret,
                   t_received, t_calls>>

\* The producer: close(jobs)
TilesClose ==
    /\ t_pc \in {"loop", "done"}
    /\ t_next = NumTiles(t_dist)
    /\ ~t_closed
    /\ t_closed' = TRUE
    /\ UNCHANGED <<notTiles, t_metric, t_dist, t_numRoutines, t_pc, t_workers,
                   t_next, t_jobs, t_errors, t_tileData, t_count, t_err, t_ret,
                   t_received, t_calls>>

\* A worker takes the next job and calls onTile(i, j, tiles[i][j]).  Both
\* metrics' onTile read the tile image's bounds, which panics on a nil image.
TilesWork(w) ==
    /\ t_pc \in {"loop", "done"}
    /\ t_workers[w].pc = "recv"
    /\ t_jobs # <<>>
    /\ LET next == Head(t_jobs)
           tileImage == d_res[next.i + 1][next.j + 1]
       IN  /\ t_jobs' = Tail(t_jobs)
           /\ t_calls' = Append(t_calls, <<next.i, next.j>>)
           /\ IF tileImage = Nil
              THEN /\ t_pc' = "panic"
                   /\ UNCHANGED <<t_tileData, t_workers>>
              ELSE /\ UNCHANGED t_pc
                   /\ \E what \in OnTileOutcomes(t_metric) :
                        IF what = "ok"
                        THEN /\ t_tileData' = SetCell(t_tileData, next.i, next.j,
                                    TileDescriptor(t_metric, next.i, next.j))
                             /\ t_workers' = [t_workers EXCEPT ![w] =
                                    [pc |-> "send", out |-> Nil]]
                        ELSE /\ t_workers' = [t_workers EXCEPT ![w] =
                                    [pc |-> "send",
                                     out |-> <<what, next.i, next.j>>]]
                             /\ UNCHANGED t_tileData
    /\ UNCHANGED <<notTiles, t_metric, t_dist, t_numRoutines, t_next, t_closed,
                   t_errors, t_count, t_err, t_ret, t_received>>

\* A worker sends the outcome: errors <- onTile(...)
TilesSend(w) ==
    /\ t_pc \in {"loop", "done"}
    /\ t_workers[w].pc = "send"
    /\ Len(t_errors) < BufferSize
    /\ t_errors' = Append(t_errors, t_workers[w].out)
    /\ t_workers' = [t_workers EXCEPT ![w] = [pc |-> "recv", out |-> Nil]]
    /\ UNCHANGED <<notTiles, t_metric, t_dist, t_numRoutines, t_pc, t_next,
                   t_closed, t_jobs, t_tileData, t_count, t_err, t_ret,
                   t_received, t_calls>>

\* A worker leaves its range loop: jobs is closed and drained
TilesExit(w) ==
    /\ t_pc \in {"loop", "done"}
    /\ t_workers[w].pc = "recv"
    /\ t_jobs = <<>>
    /\ t_closed
    /\ t_workers' = [t_workers EXCEPT ![w].pc = "exit"]
    /\ UNCHANGED <<notTiles, t_metric, t_dist, t_numRoutines, t_pc, t_next,
                   t_closed, t_jobs, t_errors, t_tileData, t_count, t_err, t_ret,
                   t_received, t_calls>>

\* The driver's loop body, once per tile: nextErr := <-errors;
\* if nextErr != nil && err == nil { err = nextErr }
TilesReceive ==
    /\ t_pc = "loop"
    /\ t_count < NumTiles(t_dist)
    /\ t_errors # <<>>
    /\ LET nextErr == Head(t_errors)
       IN  /\ t_errors' = Tail(t_errors)
           /\ t_err' = RecordError(t_err, nextErr)
           /\ t_received' = Append(t_received, nextErr)
    /\ t_count' = t_count + 1
    /\ UNCHANGED <<notTiles, t_metric, t_dist, t_numRoutines, t_pc, t_workers,
                   t_next, t_closed, t_jobs, t_tileData, t_ret, t_calls>>

\* The driver has received one outcome per tile: return err
TilesFinish ==
    /\ t_pc = "loop"
    /\ t_count = NumTiles(t_dist)
    /\ t_pc' = "done"
    /\ t_ret' = <<t_err>>
    /\ UNCHANGED <<notTiles, t_metric, t_dist, t_numRoutines, t_workers, t_next,
                   t_closed, t_jobs, t_errors, t_tileData, t_count, t_err,
                   t_received, t_calls>>

NextTiles ==
    \/ NextDivide
    \/ TilesCallDivide
    \/ TilesInit
    \/ TilesProduce
    \/ TilesClose
    \/ \E w \in 1 .. Len(t_workers) : TilesWork(w)
    \/ \E w \in 1 .. Len(t_workers) : TilesSend(w)
    \/ \E w \in 1 .. Len(t_workers) : TilesExit(w)
    \/ TilesReceive
    \/ TilesFinish

-----------------------------------------------------------------------------
(***************************************************************************)
(* The selectors.  The metric is the ImageMetric interface: InitTiles      *)
(* returns nil or an error, and Compare(storage, image, i, j) returns a    *)
(* value and a nil error, or an error.  The scan of one tile over the      *)
(* database reads the metric and writes that tile's cells only, so it is   *)
(* one step of its worker.                                                 *)
(***************************************************************************)

\* the tile divisions the selectors are run on
SelDivisions == {<<>>, <<0>>, <<1>>, <<2>>, <<1, 1>>}

\* the values Compare returns; all are below math.MaxFloat64
SelScores == {0, 1}

\* math.MaxFloat64, the initial bestValues: a value above every metric value
MaxFloat64 == 2

\* what Compare can return: a value and a nil error, or (as
\* HistogramImageMetric.Compare does) -1 and an error
CompareOutcomes ==
    {[dist |-> d, err |-> Nil] : d \in SelScores}
        \cup {[dist |-> -1, err |-> <<"Compare">>]}

\* the scans of a database of numImages images: the outcome of Compare for
\* image id imageID is at position imageID + 1
Scans(numImages) == [1 .. numImages -> CompareOutcomes]

\* a scan that skips no candidate
SkippedNever(outcome) == FALSE

\* if distErr != nil { ...; continue }
Skipped(outcome) == outcome.err # Nil

\* a candidate as good as the best so far replaces it
BetterOrEqual(dist, best) == dist <= best

\* if dist < bestValues[next.i][next.j]
Better(dist, best) == dist < best

\* The minimizer's loop over the image ids 0 .. n - 1 on one tile, from the
\* tile's cells cell = [best, id]
RECURSIVE MinScan(_, _, _)
MinScan(outcomes, n, cell) ==
    IF n = 0 THEN cell
    ELSE LET before == MinScan(outcomes, n - 1, cell)
             outcome == outcomes[n]
             imageID == n - 1
         IN  IF Skipped(outcome) THEN before
             ELSE IF Better(outcome.dist, before.best)
                  THEN [best |-> outcome.dist, id |-> imageID]
                  ELSE before

\* computeSingleHeap's loop over the image ids 0 .. n - 1 on the heap with
\* the given interf and bound: the heap's interf afterwards, and whether
\* target.Add panicked on a nil interf
RECURSIVE ComputeSingleHeap(_, _, _, _)
ComputeSingleHeap(outcomes, n, interf, bound) ==
    IF n = 0 THEN [interf |-> interf, panic |-> FALSE]
    ELSE LET before == ComputeSingleHeap(outcomes, n - 1, interf, bound)
             outcome == outcomes[n]
             imageID == n - 1
         IN  IF before.panic \/ Skipped(outcome) THEN before
             ELSE IF before.interf = Nil
                  THEN [interf |-> Nil, panic |-> TRUE]
                  ELSE [interf |-> AddEntryTo(before.interf, bound,
                                      NewImageHeapEntry(imageID, outcome.dist)),
                        panic |-> FALSE]

\* the workers ComputeHeaps starts: for w := 0; w < numRoutines; w++
ComputeHeapsRoutines(numRoutines) == HelperRoutines(numRoutines)

\* the origin rect.Min of tile (i, j): tiles of one size, laid out in a grid
TileOrigin(i, j) == [X |-> j * TileExtent, Y |-> i * TileExtent]

\* the largest and the smallest int
MaxInt == 2147483647
MinInt == 0 - MaxInt - 1

IntAbs(x) == IF x < 0 THEN 0 - x ELSE x

intManhattanDist(p1, p2) == IntAbs(p1.X - p2.X) + IntAbs(p1.Y - p2.Y)

\* getClosestManhattan over the first n of comparePoints
RECURSIVE ClosestAmong(_, _, _)
ClosestAmong(p, comparePoints, n) ==
    IF n = 0 THEN MaxInt
    ELSE LET currentMin == ClosestAmong(p, comparePoints, n - 1)
             d == intManhattanDist(p, comparePoints[n])
         IN  IF d < currentMin THEN d ELSE currentMin

getClosestManhattan(p, comparePoints) ==
    ClosestAmong(p, comparePoints, Len(comparePoints))

\* the keys of an assignedImageMap: the image ids and NoImageID
AssignedKeys(numImages) == NoImageID .. numImages - 1

\* an assignImage that records nothing
assignNothing(m, img, tile) == m

\* assignedImageMap.assignImage(img, tile)
assignImage(m, img, tile) == [m EXCEPT ![img] = Append(@, tile)]

\* DistanceWalk taking a candidate that is as far as the best so far
RECURSIVE DistanceWalkLast(_, _, _, _)
DistanceWalkLast(view, n, currentPoint, assigned) ==
    IF n = 0 THEN [maxDist |-> MinInt, bestImage |-> NoImageID]
    ELSE LET before == DistanceWalkLast(view, n - 1, currentPoint, assigned)
             img == view[n].Image
             d == getClosestManhattan(currentPoint, assigned[img])
         IN  IF d >= before.maxDist
             THEN [maxDist |-> d, bestImage |-> img]
             ELSE before

\* DistanceHeapSelector's loop over the first n entries of a view at the
\* tile origin currentPoint: maxDist and bestImage afterwards
RECURSIVE DistanceWalk(_, _, _, _)
DistanceWalk(view, n, currentPoint, assigned) ==
    IF n = 0 THEN [maxDist |-> MinInt, bestImage |-> NoImageID]
    ELSE LET before == DistanceWalk(view, n - 1, currentPoint, assigned)
             img == view[n].Image
             d == getClosestManhattan(currentPoint, assigned[img])
         IN  IF d > before.maxDist
             THEN [maxDist |-> d, bestImage |-> img]
             ELSE before

\* make([]ImageID, size): a row of zeros
ZeroRow(size) == [j \in 1 .. size |-> 0]

InitSelect ==
    /\ s_sel \in {"min", "random", "distance"}
    /\ s_dist \in SelDivisions
    /\ s_numImages \in 0 .. MaxDB
    /\ s_k \in IF s_sel = "min" THEN {0} ELSE -1 .. MaxK
    /\ s_numRoutines \in {0, MaxRoutines}
    /\ s_pc = "start"
    /\ s_workers = <<>>
    /\ s_next = 0
    /\ s_numDone = 0
    /\ s_closed = FALSE
    /\ s_jobs = <<>>
    /\ s_errors = <<>>
    /\ s_wg = 0
    /\ s_result = <<>>
    /\ s_bestValues = <<>>
    /\ s_heaps = <<>>
    /\ s_err = Nil
    /\ s_views = Nil
    /\ s_pos = 0
    /\ s_colDist = <<>>
    /\ s_assigned = <<>>
    /\ s_ret = Nil
    /\ s_seen = <<>>
    /\ s_progress = <<>>
    /\ IdleHeap("idle")
    /\ IdleBuild("idle")
    /\ IdleDivide("idle")
    /\ IdleTiles("idle")
    /\ IdleCache(0)
    /\ IdleCompose("idle")
    /\ IdleDivider("idle")
    /\ IdleParse("idle")
    /\ IdleLch("idle")
    /\ IdleMapper("idle")
    /\ IdleMetric("idle")
    /\ IdleExec("idle")

\* SelectImages is called: Metric.InitTiles(storage, query, dist).  On its
\* error SelectImages returns nil and the error.  Else the minimizer makes
\* result and bestValues, adds the tiles to the WaitGroup and starts
\* NumRoutines workers and the producer; a heap selector calls ComputeHeaps,
\* which makes a heap of bound k per tile and starts its workers and the
\* producer.  NumRoutines is what the selector's constructor made of
\* numRoutines.
SelAfterInitTiles(initErr) ==
    /\ s_pc = "start"
    /\ IF initErr # Nil
       THEN /\ s_pc' = "failed"
            /\ s_ret' = <<Nil, initErr>>
            /\ UNCHANGED <<s_workers, s_wg, s_result, s_bestValues, s_heaps,
                           s_seen>>
       ELSE /\ s_pc' = "score"
            /\ s_seen' = Matrix(s_dist, Nil)
            /\ UNCHANGED s_ret
            /\ IF s_sel = "min"
               THEN /\ s_result' = Matrix(s_dist, NoImageID)
                    /\ s_bestValues' = Matrix(s_dist, MaxFloat64)
                    /\ s_wg' = NumTiles(s_dist)
                    /\ s_workers' = [w \in 1 .. NormRoutines(s_numRoutines) |->
                                        [pc |-> "recv", out |-> Nil]]
                    /\ UNCHANGED s_heaps
               ELSE /\ s_heaps' = Matrix(s_dist, Ptr(<<>>))
                    /\ s_workers' =
                          [w \in 1 .. ComputeHeapsRoutines(NormRoutines(s_numRoutines)) |->
                              [pc |-> "recv", out |-> Nil]]
                    /\ UNCHANGED <<s_wg, s_result, s_bestValues>>
    /\ UNCHANGED <<notSelect, s_next, s_numDone, s_closed, s_jobs, s_errors,
                   s_err, s_views, s_pos, s_colDist, s_assigned, s_progress>>

\* the metric is the interface ImageMetric here: its InitTiles returns nil or
\* an error
SelInitTiles == \E initErr \in {Nil, <<"InitTiles">>} : SelAfterInitTiles(initErr)

\* The producer: jobs <- job{i, j} for the tiles in row-major order.  The
\* minimizer's producer sends the next job after the progress call for the
\* one before.
SelProduce ==
    /\ s_pc \in {"score", "select", "done"}
    /\ s_next < NumTiles(s_dist)
    /\ s_sel = "min" => s_numDone = s_next
    /\ Len(s_jobs) < BufferSize
    /\ s_jobs' = Append(s_jobs, TileJobs(s_dist)[s_next + 1])
    /\ s_next' = s_next + 1
    /\ UNCHANGED <<notSelect, s_pc, s_workers, s_numDone, s_closed, s_errors,
                   s_wg, s_result, s_bestValues, s_heaps, s_err, s_views, s_pos,
                   s_colDist, s_assigned, s_ret, s_seen, s_progress>>

\* The minimizer's producer after a send: numDone++; progress(numDone)
SelMinProgress ==
    /\ s_sel = "min"
    /\ s_pc \in {"score", "done"}
    /\ s_numDone < s_next
    /\ s_numDone' = s_numDone + 1
    /\ s_progress' = Append(s_progress, s_numDone + 1)
    /\ UNCHANGED <<notSelect, s_pc, s_workers, s_next, s_closed, s_jobs,
                   s_errors, s_wg, s_result, s_bestValues, s_heaps, s_err,
                   s_views, s_pos, s_colDist, s_assigned, s_ret, s_seen>>

\* The producer: close(jobs).  (A worker that finds jobs closed and drained
\* leaves its loop and takes no further step, as a worker that waits for a
\* job does.)
SelClose ==
    /\ s_pc \in {"score", "select", "done"}
    /\ s_next = NumTiles(s_dist)
    /\ s_sel = "min" => s_numDone = s_next
    /\ ~s_closed
    /\ s_closed' = TRUE
    /\ UNCHANGED <<notSelect, s_pc, s_workers, s_next, s_numDone, s_jobs,
                   s_errors, s_wg, s_result, s_bestValues, s_heaps, s_err,
                   s_views, s_pos, s_colDist, s_assigned, s_ret, s_seen,
                   s_progress>>

\* A worker of the minimizer takes the next job, scans the database for the
\* tile and calls wg.Done()
SelMinWork(w) ==
    /\ s_sel = "min"
    /\ s_pc \in {"score", "done"}
    /\ s_workers[w].pc = "recv"
    /\ s_jobs # <<>>
    /\ LET next == Head(s_jobs)
       IN  \E outcomes \in Scans(s_numImages) :
              LET cell == MinScan(outcomes, s_numImages,
                              [best |-> s_bestValues[next.i + 1][next.j + 1],
                               id |-> s_result[next.i + 1][next.j + 1]])
              IN  /\ s_bestValues' = SetCell(s_bestValues, next.i, next.j, cell.best)
                  /\ s_result' = SetCell(s_result, next.i, next.j, cell.id)
                  /\ s_seen' = SetCell(s_seen, next.i, next.j, Ptr(outcomes))
    /\ s_jobs' = Tail(s_jobs)
    /\ s_wg' = s_wg - 1
    /\ UNCHANGED <<notSelect, s_pc, s_workers, s_next, s_numDone, s_closed,
                   s_errors, s_heaps, s_err, s_views, s_pos, s_colDist,
                   s_assigned, s_ret, s_progress>>

\* The minimizer's driver: wg.Wait() is over; return result, nil
SelMinReturn ==
    /\ s_sel = "min"
    /\ s_pc = "score"
    /\ s_wg = 0
    /\ s_pc' = "done"
    /\ s_ret' = <<Ptr(s_result), Nil>>
    /\ UNCHANGED <<notSelect, s_workers, s_next, s_numDone, s_closed, s_jobs,
                   s_errors, s_wg, s_result, s_bestValues, s_heaps, s_err,
                   s_views, s_pos, s_colDist, s_assigned, s_seen, s_progress>>

\* A worker of ComputeHeaps takes the next job and runs computeSingleHeap on
\* the tile's heap; the outcome it will send is computeSingleHeap's nil
SelHeapWork(w) ==
    /\ s_sel # "min"
    /\ s_pc \in {"score", "select", "done"}
    /\ s_workers[w].pc = "recv"
    /\ s_jobs # <<>>
    /\ LET next == Head(s_jobs)
       IN  \E outcomes \in Scans(s_numImages) :
              LET after == ComputeSingleHeap(outcomes, s_numImages,
                               s_heaps[next.i + 1][next.j + 1], s_k)
              IN  /\ s_seen' = SetCell(s_seen, next.i, next.j, Ptr(outcomes))
                  /\ s_heaps' = SetCell(s_heaps, next.i, next.j, after.interf)
                  /\ IF after.panic
                     THEN /\ s_pc' = "panic"
                          /\ UNCHANGED s_workers
                     ELSE /\ s_workers' = [s_workers EXCEPT ![w] =
                                              [pc |-> "send", out |-> Nil]]
                          /\ UNCHANGED s_pc
    /\ s_jobs' = Tail(s_jobs)
    /\ UNCHANGED <<notSelect, s_next, s_numDone, s_closed, s_errors, s_wg,
                   s_result, s_bestValues, s_err, s_views, s_pos, s_colDist,
                   s_assigned, s_ret, s_progress>>

\* A worker of ComputeHeaps sends the outcome: errors <- computeSingleHeap(...)
SelHeapSend(w) ==
    /\ s_pc \in {"score", "select", "done"}
    /\ s_workers[w].pc = "send"
    /\ Len(s_errors) < BufferSize
    /\ s_errors' = Append(s_errors, s_workers[w].out)
    /\ s_workers' = [s_workers EXCEPT ![w] = [pc |-> "recv", out |-> Nil]]
    /\ UNCHANGED <<notSelect, s_pc, s_next, s_numDone, s_closed, s_jobs, s_wg,
                   s_result, s_bestValues, s_heaps, s_err, s_views, s_pos,
                   s_colDist, s_assigned, s_ret, s_seen, s_progress>>

\* ComputeHeaps' driver, once per tile: nextErr := <-errors, the update of
\* err, numDone++, progress(numDone)
SelHeapReceive ==
    /\ s_sel # "min"
    /\ s_pc = "score"
    /\ s_numDone < NumTiles(s_dist)
    /\ s_errors # <<>>
    /\ s_errors' = Tail(s_errors)
    /\ s_err' = RecordError(s_err, Head(s_errors))
    /\ s_numDone' = s_numDone + 1
    /\ s_progress' = Append(s_progress, s_numDone + 1)
    /\ UNCHANGED <<notSelect, s_pc, s_workers, s_next, s_closed, s_jobs, s_wg,
                   s_result, s_bestValues, s_heaps, s_views, s_pos, s_colDist,
                   s_assigned, s_ret, s_seen>>

\* ComputeHeaps has received one outcome per tile and returns.  On its error
\* SelectImages returns nil and the error.  Else the selection starts:
\* RandomHeapSelector.Select makes res, whose rows are nil;
\* DistanceHeapSelector makes currentAssignment and result, filled with
\* NoImageID.
SelHeapsDone ==
    /\ s_sel # "min"
    /\ s_pc = "score"
    /\ s_numDone = NumTiles(s_dist)
    /\ IF s_err # Nil
       THEN /\ s_pc' = "failed"
            /\ s_ret' = <<Nil, s_err>>
            /\ UNCHANGED <<s_result, s_assigned>>
       ELSE /\ s_pc' = "select"
            /\ UNCHANGED s_ret
            /\ IF s_sel = "random"
               THEN /\ s_result' = [i \in 1 .. Len(s_dist) |-> Nil]
                    /\ UNCHANGED s_assigned
               ELSE /\ s_result' = Matrix(s_dist, NoImageID)
                    /\ s_assigned' = [img \in AssignedKeys(s_numImages) |-> <<>>]
    /\ UNCHANGED <<notSelect, s_workers, s_next, s_numDone, s_closed, s_jobs,
                   s_errors, s_wg, s_bestValues, s_heaps, s_err, s_views, s_pos,
                   s_colDist, s_seen, s_progress>>

\* RandomHeapSelector.Select: views := GenHeapViews(heaps).  GetView panics
\* on a heap whose interf is nil.
SelGenHeapViews ==
    /\ s_sel = "random"
    /\ s_pc = "select"
    /\ s_views = Nil
    /\ IF \E t \in 1 .. NumTiles(s_dist) :
             LET tile == TileJobs(s_dist)[t]
             IN  s_heaps[tile.i + 1][tile.j + 1] = Nil
       THEN /\ s_pc' = "panic"
            /\ UNCHANGED s_views
       ELSE /\ s_views' = Ptr([i \in 1 .. Len(s_dist) |->
                                  [j \in 1 .. s_dist[i] |->
                                      ViewOf(Deref(s_heaps[i][j]))]])
            /\ UNCHANGED s_pc
    /\ UNCHANGED <<notSelect, s_workers, s_next, s_numDone, s_closed, s_jobs,
                   s_errors, s_wg, s_result, s_bestValues, s_heaps, s_err,
                   s_pos, s_colDist, s_assigned, s_ret, s_seen, s_progress>>

\* RandomHeapSelector.Select at the next tile (i, j), in row-major order.  At
\* j = 0 colDist := make([]ImageID, size).  On an empty view it assigns
\* res[i][j] = NoImageID while res[i] is still nil (res[i] = colDist comes
\* after the row's loop): an index out of range.  Else
\* colDist[j] = view[index].Image for a random index; after the last tile of
\* the row res[i] = colDist.
SelRandomPick ==
    /\ s_sel = "random"
    /\ s_pc = "select"
    /\ s_views # Nil
    /\ s_pos < NumTiles(s_dist)
    /\ LET tile == TileJobs(s_dist)[s_pos + 1]
           size == s_dist[tile.i + 1]
           view == Deref(s_views)[tile.i + 1][tile.j + 1]
           n == Len(view)
           row == IF tile.j = 0 THEN ZeroRow(size) ELSE s_colDist
       IN  IF n = 0
           THEN /\ s_pc' = "panic"
                /\ UNCHANGED <<s_result, s_colDist, s_pos>>
           ELSE /\ \E index \in 0 .. n - 1 :
                     LET colDist == [row EXCEPT ![tile.j + 1] = view[index + 1].Image]
                     IN  /\ s_colDist' = colDist
                         /\ s_result' = IF tile.j + 1 = size
                                        THEN [s_result EXCEPT ![tile.i + 1] = colDist]
                                        ELSE s_result
                /\ s_pos' = s_pos + 1
                /\ UNCHANGED s_pc
    /\ UNCHANGED <<notSelect, s_workers, s_next, s_numDone, s_closed, s_jobs,
                   s_errors, s_wg, s_bestValues, s_heaps, s_err, s_views,
                   s_assigned, s_ret, s_seen, s_progress>>

\* DistanceHeapSelector at the next tile (i, j), in row-major order:
\* view := heap.GetView() (a panic on a nil interf), the loop over the view,
\* result[i][j] = bestImage, assignImage(bestImage, currentPoint)
SelDistancePick ==
    /\ s_sel = "distance"
    /\ s_pc = "select"
    /\ s_pos < NumTiles(s_dist)
    /\ LET tile == TileJobs(s_dist)[s_pos + 1]
           currentPoint == TileOrigin(tile.i, tile.j)
           interf == s_heaps[tile.i + 1][tile.j + 1]
       IN  IF interf = Nil
           THEN /\ s_pc' = "panic"
                /\ UNCHANGED <<s_result, s_assigned, s_pos>>
           ELSE LET view == ViewOf(Deref(interf))
                    walk == DistanceWalk(view, Len(view), currentPoint, s_assigned)
                IN  /\ s_result' = SetCell(s_result, tile.i, tile.j, walk.bestImage)
                    /\ s_assigned' = assignImage(s_assigned, walk.bestImage, currentPoint)
                    /\ s_pos' = s_pos + 1
                    /\ UNCHANGED s_pc
    /\ UNCHANGED <<notSelect, s_workers, s_next, s_numDone, s_closed, s_jobs,
                   s_errors, s_wg, s_bestValues, s_heaps, s_err, s_views,
                   s_colDist, s_ret, s_seen, s_progress>>

\* The selection has passed every tile: return the matrix and a nil error
SelReturn ==
    /\ s_pc = "select"
    /\ s_sel = "random" => s_views # Nil
    /\ s_pos = NumTiles(s_dist)
    /\ s_pc' = "done"
    /\ s_ret' = <<Ptr(s_result), Nil>>
    /\ UNCHANGED <<notSelect, s_workers, s_next, s_numDone, s_closed, s_jobs,
                   s_errors, s_wg, s_result, s_bestValues, s_heaps, s_err,
                   s_views, s_pos, s_colDist, s_assigned, s_seen, s_progress>>

NextSelect ==
    \/ SelInitTiles
    \/ SelProduce
    \/ SelMinProgress
    \/ SelClose
    \/ \E w \in 1 .. Len(s_workers) : SelMinWork(w)
    \/ SelMinReturn
    \/ \E w \in 1 .. Len(s_workers) : SelHeapWork(w)
    \/ \E w \in 1 .. Len(s_workers) : SelHeapSend(w)
    \/ SelHeapReceive
    \/ SelHeapsDone
    \/ SelGenHeapViews
    \/ SelRandomPick
    \/ SelDistancePick
    \/ SelReturn

\* The walk of DistanceHeapSelector on its own: the state in which
\* ComputeHeaps has returned the heaps, for a metric whose values do not
\* depend on the tile (every tile's scan of the database has the same
\* outcomes), and the walk has not started.
WalkDivisions == {<<1>>, <<2>>, <<3>>, <<4>>, <<2, 2>>, <<1, 1, 1>>, <<3, 0, 1>>}

InitWalk ==
    /\ s_sel = "distance"
    /\ s_dist \in WalkDivisions
    /\ s_numImages \in 0 .. MaxWalkDB
    /\ s_k \in -1 .. MaxK
    /\ s_numRoutines = 1
    /\ s_pc = "select"
    /\ s_workers = <<[pc |-> "recv", out |-> Nil]>>
    /\ s_next = NumTiles(s_dist)
    /\ s_numDone = NumTiles(s_dist)
    /\ s_closed = TRUE
    /\ s_jobs = <<>>
    /\ s_errors = <<>>
    /\ s_wg = 0
    /\ s_result = Matrix(s_dist, NoImageID)
    /\ s_bestValues = <<>>
    /\ \E outcomes \in Scans(s_numImages) :
          LET heap == ComputeSingleHeap(outcomes, s_numImages, Ptr(<<>>), s_k)
          IN  /\ ~heap.panic
              /\ s_heaps = Matrix(s_dist, heap.interf)
              /\ s_seen = Matrix(s_dist, Ptr(outcomes))
    /\ s_err = Nil
    /\ s_views = Nil
    /\ s_pos = 0
    /\ s_colDist = <<>>
    /\ s_assigned = [img \in AssignedKeys(s_numImages) |-> <<>>]
    /\ s_ret = Nil
    /\ s_progress = [n \in 1 .. NumTiles(s_dist) |-> n]
    /\ IdleHeap("idle")
    /\ IdleBuild("idle")
    /\ IdleDivide("idle")
    /\ IdleTiles("idle")
    /\ IdleCache(0)
    /\ IdleCompose("idle")
    /\ IdleDivider("idle")
    /\ IdleParse("idle")
    /\ IdleLch("idle")
    /\ IdleMapper("idle")
    /\ IdleMetric("idle")
    /\ IdleExec("idle")

NextWalk ==
    \/ SelDistancePick
    \/ SelReturn

-----------------------------------------------------------------------------
(***************************************************************************)
(* Image Cache.  Goroutines call Get and Put on one cache; a call locks    *)
(* the mutex, runs its body and unlocks on return (defer).  A key is the   *)
(* string keyFormat builds, as the sequence of its characters.  An image   *)
(* is nil or a pointer; Put is given the scaled image, which is not nil.   *)
(***************************************************************************)

\* the goroutines that use the cache
CacheGoroutines == {1, 2}
\* the images given to Put: two images, so that a second Put of a key can
\* bring another image than the first one
CacheImages == {Ptr("a"), Ptr("b")}
\* the image ids of the calls
CacheIDs == 0 .. MaxCache
\* the widths and heights of the calls
CacheExtents == {10}

\* fmt's %d of a digit
Digit(d) == <<"0", "1", "2", "3", "4", "5", "6", "7", "8", "9">>[d + 1]

RECURSIVE Digits(_)
\* fmt's %d of an integer
Digits(n) ==
    IF n < 0 THEN <<"-">> \o Digits(0 - n)
    ELSE IF n < 10 THEN <<Digit(n)>>
    ELSE Digits(n \div 10) \o <<Digit(n % 10)>>

\* ImageCache.keyFormat: fmt.Sprintf("%d-%d-%d", id, width, height)
keyFormat(id, width, height) ==
    Digits(id) \o <<"-">> \o Digits(width) \o <<"-">> \o Digits(height)

\* NewImageCache: the field size for the argument size
NewImageCacheSize(size) == IF size <= 0 THEN 1 ELSE size

\* ImageCache.lookup on the map content
lookup(content, key) ==
    IF key \in DOMAIN content THEN content[key] ELSE Nil

\* content[key] = img
MapSet(content, key, img) ==
    [k \in DOMAIN content \cup {key} |-> IF k = key THEN img ELSE content[k]]

\* a delete that leaves the map as it is
MapDeleteNothing(content, key) == content

\* delete(content, key)
MapDelete(content, key) ==
    [k \in DOMAIN content \ {key} |-> content[k]]

\* a Put that takes the cache for not full while it holds no more than size
\* keys
HasRoomOneMore(len, size) == len <= size

\* Put's test "len(cache.insertOrder) < cache.size"
HasRoom(len, size) == len < size

\* a Put that stores its image whether or not the key is in the cache
FoundNever(found) == FALSE

\* Put's test "lookup != nil"
Found(found) == found # Nil

\* a Put that removes the key inserted last
fstNewest(insertOrder) == insertOrder[Len(insertOrder)]

\* Put's "fst := cache.insertOrder[0]"
fst(insertOrder) == insertOrder[1]

\* the body of Put between Lock and the deferred Unlock: the fields content
\* and insertOrder it leaves
PutBody(content, insertOrder, size, key, img) ==
    IF Found(lookup(content, key))
    THEN [content |-> content, insertOrder |-> insertOrder]
    ELSE IF HasRoom(Len(insertOrder), size)
    THEN [content |-> MapSet(content, key, img),
          insertOrder |-> Append(insertOrder, key)]
    ELSE [content |-> MapSet(MapDelete(content, fst(insertOrder)), key, img),
          insertOrder |-> Append(Tail(insertOrder), key)]

\* a mutex that never makes a goroutine wait
LockFree(m) == TRUE

\* m.Lock() returns when the mutex is not locked
CanLock(m) == m = FALSE

\* a goroutine that is in no call
NoCall ==
    [pc |-> "idle", op |-> "none", id |-> 0, width |-> 0, height |-> 0,
     img |-> Nil, ret |-> Nil]

\* cache := NewImageCache(size), and the goroutines that will use it
InitCache ==
    /\ c_arg \in -1 .. MaxCache
    /\ c_size = NewImageCacheSize(c_arg)
    /\ c_content = <<>>
    /\ c_insertOrder = <<>>
    /\ c_m = FALSE
    /\ c_goroutines = [g \in CacheGoroutines |-> NoCall]
    /\ c_calls = 0
    /\ c_puts = <<>>
    /\ IdleHeap("idle")
    /\ IdleBuild("idle")
    /\ IdleDivide("idle")
    /\ IdleTiles("idle")
    /\ IdleSelect("idle")
    /\ IdleCompose("idle")
    /\ IdleDivider("idle")
    /\ IdleParse("idle")
    /\ IdleLch("idle")
    /\ IdleMapper("idle")
    /\ IdleMetric("idle")
    /\ IdleExec("idle")

\* goroutine g calls cache.Get(id, width, height): it arrives at m.Lock()
CacheCallGet(g) ==
    /\ c_goroutines[g].pc = "idle"
    /\ c_calls < MaxCacheOps
    /\ \E id \in CacheIDs, width \in CacheExtents, height \in CacheExtents :
           c_goroutines' = [c_goroutines EXCEPT ![g] =
               [pc |-> "lock", op |-> "get", id |-> id, width |-> width,
                height |-> height, img |-> Nil, ret |-> Nil]]
    /\ c_calls' = c_calls + 1
    /\ UNCHANGED <<notCache, c_arg, c_size, c_content, c_insertOrder, c_m,
                   c_puts>>

\* goroutine g calls cache.Put(id, width, height, img): it arrives at m.Lock()
CacheCallPut(g) ==
    /\ c_goroutines[g].pc = "idle"
    /\ c_calls < MaxCacheOps
    /\ \E id \in CacheIDs, width \in CacheExtents, height \in CacheExtents,
          img \in CacheImages :
           c_goroutines' = [c_goroutines EXCEPT ![g] =
               [pc |-> "lock", op |-> "put", id |-> id, width |-> width,
                height |-> height, img |-> img, ret |-> Nil]]
    /\ c_calls' = c_calls + 1
    /\ UNCHANGED <<notCache, c_arg, c_size, c_content, c_insertOrder, c_m,
                   c_puts>>

\* cache.m.Lock() of goroutine g returns
CacheLock(g) ==
    /\ c_goroutines[g].pc = "lock"
    /\ CanLock(c_m)
    /\ c_m' = TRUE
    /\ c_goroutines' = [c_goroutines EXCEPT ![g].pc = "body"]
    /\ UNCHANGED <<notCache, c_arg, c_size, c_content, c_insertOrder, c_calls,
                   c_puts>>

\* goroutine g runs the body of Get: the return value is set
CacheGet(g) ==
    /\ c_goroutines[g].pc = "body"
    /\ c_goroutines[g].op = "get"
    /\ LET call == c_goroutines[g]
           keyFmt == keyFormat(call.id, call.width, call.height)
       IN  c_goroutines' = [c_goroutines EXCEPT
               ![g].pc = "unlock", ![g].ret = lookup(c_content, keyFmt)]
    /\ UNCHANGED <<notCache, c_arg, c_size, c_content, c_insertOrder, c_m,
                   c_calls, c_puts>>

\* goroutine g runs the body of Put
CachePut(g) ==
    /\ c_goroutines[g].pc = "body"
    /\ c_goroutines[g].op = "put"
    /\ LET call == c_goroutines[g]
           keyFmt == keyFormat(call.id, call.width, call.height)
           after == PutBody(c_content, c_insertOrder, c_size, keyFmt, call.img)
       IN  /\ c_content' = after.content
           /\ c_insertOrder' = after.insertOrder
           /\ c_puts' = Append(c_puts, keyFmt)
    /\ c_goroutines' = [c_goroutines EXCEPT ![g].pc = "unlock"]
    /\ UNCHANGED <<notCache, c_arg, c_size, c_m, c_calls>>

\* the deferred cache.m.Unlock() of goroutine g, and the call returns
CacheUnlock(g) ==
    /\ c_goroutines[g].pc = "unlock"
    /\ c_m' = FALSE
    /\ c_goroutines' = [c_goroutines EXCEPT ![g] = NoCall]
    /\ UNCHANGED <<notCache, c_arg, c_size, c_content, c_insertOrder, c_calls,
                   c_puts>>

NextCache ==
    \/ \E g \in CacheGoroutines : CacheCallGet(g)
    \/ \E g \in CacheGoroutines : CacheCallPut(g)
    \/ \E g \in CacheGoroutines : CacheLock(g)
    \/ \E g \in CacheGoroutines : CacheGet(g)
    \/ \E g \in CacheGoroutines : CachePut(g)
    \/ \E g \in CacheGoroutines : CacheUnlock(g)

-----------------------------------------------------------------------------
(***************************************************************************)
(* ComposeMosaic.  The storage is an FSImageDB over a mapper with          *)
(* m_numImages paths; a point is <<x, y>>; a colour is 0 (the zero value   *)
(* of a new RGBA image) or id + 1 for a pixel of the image id.  The cache  *)
(* is the cache of the variables c_; the composer is its only user, so a   *)
(* call of Get or Put is part of the step that makes it.                   *)
(***************************************************************************)

\* the variable ImageCacheSize
ImageCacheSize == 15

\* the row lengths of the selection matrices composed
ComposeDivisions == {<<>>, <<0>>, <<1>>, <<2>>, <<1, 1>>, <<1, 0>>}

\* image.Rect(x0, y0, x1, y1)
Rect(x0, y0, x1, y1) ==
    [Min |-> [X |-> IF x0 > x1 THEN x1 ELSE x0, Y |-> IF y0 > y1 THEN y1 ELSE y0],
     Max |-> [X |-> IF x0 > x1 THEN x0 ELSE x1, Y |-> IF y0 > y1 THEN y0 ELSE y1]]

\* image.Rectangle{}
ZR == [Min |-> [X |-> 0, Y |-> 0], Max |-> [X |-> 0, Y |-> 0]]

\* Rectangle.Dx and Rectangle.Dy
Dx(r) == r.Max.X - r.Min.X
Dy(r) == r.Max.Y - r.Min.Y

\* Rectangle.Empty
Empty(r) == r.Min.X >= r.Max.X \/ r.Min.Y >= r.Max.Y

\* the points of a rectangle
Points(r) == (r.Min.X .. r.Max.X - 1) \X (r.Min.Y .. r.Max.Y - 1)

\* image.NewRGBA(r): every pixel has the zero value
NewRGBA(r) == [Rect |-> r, Pix |-> [p \in Points(r) |-> 0]]

\* the division of an image into tiles of width w and height h with the row
\* lengths of dist, starting from (0, 0)
GridDivision(dist, w, h) ==
    [i \in 1 .. Len(dist) |->
        [j \in 1 .. dist[i] |-> Rect((j - 1) * w, (i - 1) * h, j * w, i * h)]]

RECURSIVE Rows(_, _)
\* the rows of n image ids
Rows(n, ids) ==
    IF n = 0 THEN {<<>>}
    ELSE {Append(r, id) : r \in Rows(n - 1, ids), id \in ids}

RECURSIVE Selections(_, _, _)
\* the selection matrices of the first n rows of dist
Selections(dist, n, ids) ==
    IF n = 0 THEN {<<>>}
    ELSE {Append(m, r) : m \in Selections(dist, n - 1, ids), r \in Rows(dist[n], ids)}

\* FSMapper.GetPath(id) on a mapping of numImages paths: whether it finds a
\* path, or it panics with an index out of range (a negative id passes the
\* test int(id) >= len(m.IDMapping))
GetPath(numImages, id) ==
    IF id >= numImages THEN [has |-> FALSE, panic |-> FALSE]
    ELSE IF id < 0 THEN [has |-> FALSE, panic |-> TRUE]
    ELSE [has |-> TRUE, panic |-> FALSE]

\* FSImageDB.LoadImage(id)
LoadImage(numImages, readable, id) ==
    LET file == GetPath(numImages, id)
    IN  IF file.panic THEN [img |-> Nil, err |-> Nil, panic |-> TRUE]
        ELSE IF ~file.has
        THEN [img |-> Nil, err |-> <<"Invalid image id", id>>, panic |-> FALSE]
        ELSE IF id \notin readable
        THEN [img |-> Nil, err |-> <<"open", id>>, panic |-> FALSE]
        ELSE [img |-> Ptr([id |-> id]), err |-> Nil, panic |-> FALSE]

\* ForceResize: the image scaled to tileWidth x tileHeight
ForceResize(tileWidth, tileHeight, img) ==
    Ptr([id |-> Deref(img).id, width |-> tileWidth, height |-> tileHeight])

\* img.At of a scaled image
ColourOf(img) == Deref(img).id + 1

\* an insertTile that sets no pixel
BlitNothing(into, area, img) == into

\* insertTile's loops: into.Set(area.Min.X+x, area.Min.Y+y, c) for x below
\* tileWidth and y below tileHeight; Set leaves out the points outside into
Blit(into, area, img) ==
    [into EXCEPT !.Pix =
        [p \in DOMAIN into.Pix |->
            IF /\ p[1] >= area.Min.X /\ p[1] < area.Min.X + Dx(area)
               /\ p[2] >= area.Min.Y /\ p[2] < area.Min.Y + Dy(area)
            THEN ColourOf(img)
            ELSE into.Pix[p]]]

\* insertTile(into, area, storage, dbImage, resizer, s, cache): the image and
\* the cache it leaves, the calls of cache.Get, storage.LoadImage and
\* cache.Put it makes, and what it returns
insertTile(into, area, numImages, readable, dbImage, content, insertOrder, size) ==
    LET tileWidth == Dx(area)
        tileHeight == Dy(area)
        key == keyFormat(dbImage, tileWidth, tileHeight)
        got == [id |-> dbImage, width |-> tileWidth, height |-> tileHeight]
        cached == lookup(content, key)
        loaded == LoadImage(numImages, readable, dbImage)
    IN  IF cached # Nil
        THEN [into |-> Blit(into, area, cached), content |-> content,
              insertOrder |-> insertOrder, lookups |-> <<got>>,
              loads |-> <<>>, puts |-> <<>>, err |-> Nil, panic |-> FALSE]
        ELSE IF loaded.panic
        THEN [into |-> into, content |-> content, insertOrder |-> insertOrder,
              lookups |-> <<got>>, loads |-> <<dbImage>>, puts |-> <<>>,
              err |-> Nil, panic |-> TRUE]
        ELSE IF loaded.err # Nil
        THEN [into |-> into, content |-> content, insertOrder |-> insertOrder,
              lookups |-> <<got>>, loads |-> <<dbImage>>, puts |-> <<>>,
              err |-> loaded.err, panic |-> FALSE]
        ELSE LET img == ForceResize(tileWidth, tileHeight, loaded.img)
                 after == PutBody(content, insertOrder, size, key, img)
             IN  [into |-> Blit(into, area, img), content |-> after.content,
                  insertOrder |-> after.insertOrder, lookups |-> <<got>>,
                  loads |-> <<dbImage>>, puts |-> <<key>>, err |-> Nil,
                  panic |-> FALSE]

\* ComposeMosaic(storage, symbolicTiles, mosaicDivison, resizer, s) is called
InitCompose ==
    /\ m_numImages \in 0 .. MaxDB
    /\ m_readable \in SUBSET (0 .. m_numImages - 1)
    /\ \E dist \in ComposeDivisions, w \in 0 .. MaxTileSize, h \in 0 .. MaxTileSize :
           /\ m_symbolicTiles \in
                  Selections(dist, Len(dist), NoImageID .. m_numImages - 1)
           /\ m_mosaicDivison = GridDivision(dist, w, h)
    /\ m_pc = "start"
    /\ m_i = 0
    /\ m_j = 0
    /\ m_res = Nil
    /\ m_ret = Nil
    /\ m_lookups = <<>>
    /\ m_loads = <<>>
    /\ m_errs = <<>>
    /\ IdleCache(0)
    /\ IdleHeap("idle")
    /\ IdleBuild("idle")
    /\ IdleDivide("idle")
    /\ IdleTiles("idle")
    /\ IdleSelect("idle")
    /\ IdleDivider("idle")
    /\ IdleParse("idle")
    /\ IdleLch("idle")
    /\ IdleMapper("idle")
    /\ IdleMetric("idle")
    /\ IdleExec("idle")

\* ComposeMosaic up to its loop: it returns the empty image for no rows or an
\* empty last row, and else makes the image res and the cache
ComposeStart ==
    /\ m_pc = "start"
    /\ LET numTilesVert == Len(m_symbolicTiles)
       IN  IF numTilesVert = 0 \/ Len(m_symbolicTiles[numTilesVert]) = 0
           THEN /\ m_res' = Ptr(NewRGBA(ZR))
                /\ m_ret' = <<Ptr(NewRGBA(ZR)), Nil>>
                /\ m_pc' = "done"
                /\ UNCHANGED <<c_arg, c_size>>
           ELSE LET lastCol == m_symbolicTiles[numTilesVert]
                    lastTile == m_mosaicDivison[numTilesVert][Len(lastCol)]
                    resBounds == Rect(0, 0, lastTile.Max.X, lastTile.Max.Y)
                IN  /\ m_res' = Ptr(NewRGBA(resBounds))
                    /\ c_arg' = ImageCacheSize
                    /\ c_size' = NewImageCacheSize(ImageCacheSize)
                    /\ m_pc' = "loop"
                    /\ m_ret' = m_ret
    /\ UNCHANGED <<notCompose, c_content, c_insertOrder, c_puts,
                   m_symbolicTiles, m_mosaicDivison, m_numImages, m_readable,
                   m_i, m_j, m_lookups, m_loads, m_errs>>

\* the body of the inner loop: insertTile for tile (i, j); its error is
\* dropped, a panic ends ComposeMosaic
ComposeInsertTile ==
    /\ m_pc = "loop"
    /\ m_i < Len(m_symbolicTiles)
    /\ m_j < Len(m_symbolicTiles[m_i + 1])
    /\ LET tileArea == m_mosaicDivison[m_i + 1][m_j + 1]
           dbImage == m_symbolicTiles[m_i + 1][m_j + 1]
           out == insertTile(Deref(m_res), tileArea, m_numImages, m_readable,
                             dbImage, c_content, c_insertOrder, c_size)
       IN  /\ m_res' = Ptr(out.into)
           /\ c_content' = out.content
           /\ c_insertOrder' = out.insertOrder
           /\ c_puts' = c_puts \o out.puts
           /\ m_lookups' = m_lookups \o out.lookups
           /\ m_loads' = m_loads \o out.loads
           /\ IF out.panic
              THEN m_pc' = "panic" /\ UNCHANGED <<m_j, m_errs>>
              ELSE /\ m_pc' = "loop"
                   /\ m_j' = m_j + 1
                   /\ m_errs' = Append(m_errs, out.err)
    /\ UNCHANGED <<notCompose, c_arg, c_size, m_symbolicTiles, m_mosaicDivison,
                   m_numImages, m_readable, m_i, m_ret>>

\* the inner loop ends: the next row
ComposeNextRow ==
    /\ m_pc = "loop"
    /\ m_i < Len(m_symbolicTiles)
    /\ m_j >= Len(m_symbolicTiles[m_i + 1])
    /\ m_i' = m_i + 1
    /\ m_j' = 0
    /\ UNCHANGED <<notCompose, c_arg, c_size, c_content, c_insertOrder, c_puts,
                   m_symbolicTiles, m_mosaicDivison, m_numImages, m_readable,
                   m_pc, m_res, m_ret, m_lookups, m_loads, m_errs>>

\* the outer loop ends: return res, nil
ComposeReturn ==
    /\ m_pc = "loop"
    /\ m_i >= Len(m_symbolicTiles)
    /\ m_ret' = <<m_res, Nil>>
    /\ m_pc' = "done"
    /\ UNCHANGED <<notCompose, c_arg, c_size, c_content, c_insertOrder, c_puts,
                   m_symbolicTiles, m_mosaicDivison, m_numImages, m_readable,
                   m_i, m_j, m_res, m_lookups, m_loads, m_errs>>

NextCompose ==
    \/ ComposeStart
    \/ ComposeInsertTile
    \/ ComposeNextRow
    \/ ComposeReturn

-----------------------------------------------------------------------------
(***************************************************************************)
(* The image dividers (divide.go).  A TileDivision is a sequence of rows   *)
(* of rectangles.                                                          *)
(***************************************************************************)

\* the rectangles given to Divide: widths and heights 0 .. MaxSide, with the
\* near corner at 0 or 1
DividerBounds ==
    {Rect(x, y, x + w, y + h) :
        x \in {0, 1}, y \in {0, 1}, w \in 0 .. MaxSide, h \in 0 .. MaxSide}

\* the modes DivideCrop, DivideAdjust and DividePad
DivideModes == {"DivideCrop", "DivideAdjust", "DividePad"}

\* FixedSizeDivider.getSize
getSize(mode, originalDimension, tileDimension) ==
    IF tileDimension > originalDimension \/ tileDimension = 0 THEN 1
    ELSE IF originalDimension % tileDimension = 0
    THEN originalDimension \div tileDimension
    ELSE IF mode = "DivideCrop" THEN originalDimension \div tileDimension
    ELSE (originalDimension \div tileDimension) + 1

\* FixedSizeDivider.outerBound
outerBoundSize(mode, imgBoundPosition, position) ==
    IF position <= imgBoundPosition THEN position
    ELSE IF mode = "DivideAdjust" THEN imgBoundPosition
    ELSE position

\* FixedSizeDivider.Divide(bounds): nil for empty bounds
DivideSize(divider, bounds) ==
    IF Empty(bounds) THEN <<>>
    ELSE LET numRows == getSize(divider.Mode, Dy(bounds), divider.Height)
             numCols == getSize(divider.Mode, Dx(bounds), divider.Width)
         IN  [i \in 1 .. numRows |->
                [j \in 1 .. numCols |->
                    LET x0 == bounds.Min.X + (j - 1) * divider.Width
                        y0 == bounds.Min.Y + (i - 1) * divider.Height
                        x1 == outerBoundSize(divider.Mode, bounds.Max.X,
                                             x0 + divider.Width)
                        y1 == outerBoundSize(divider.Mode, bounds.Max.Y,
                                             y0 + divider.Height)
                    IN  Rect(x0, y0, x1, y1)]]

\* FixedNumDivider.outerBound
outerBound(cut, divisionNum, index, imgBound, value) ==
    IF index + 1 = divisionNum
    THEN IF cut THEN value ELSE imgBound
    ELSE value

\* FixedNumDivider.Divide's tileWidth and tileHeight
TileDimension(imgDimension, num) ==
    LET dim == IF num > 0 THEN imgDimension \div num ELSE 1
    IN  IF dim <= 0 THEN 1 ELSE dim

\* a Divide without the test for empty bounds: the rectangle as its one tile
DivideNumWhole(divider, bounds) == <<<<bounds>>>>

\* FixedNumDivider.Divide(bounds): nil for empty bounds
DivideNum(divider, bounds) ==
    IF Empty(bounds) THEN <<>>
    ELSE LET tileWidth == TileDimension(Dx(bounds), divider.NumX)
             tileHeight == TileDimension(Dy(bounds), divider.NumY)
             numRows == divider.NumY
             numCols == divider.NumX
         IN  [i \in 1 .. numRows |->
                [j \in 1 .. numCols |->
                    LET x0 == bounds.Min.X + (j - 1) * tileWidth
                        y0 == bounds.Min.Y + (i - 1) * tileHeight
                        x1 == outerBound(divider.Cut, numCols, j - 1,
                                         bounds.Max.X, x0 + tileWidth)
                        y1 == outerBound(divider.Cut, numRows, i - 1,
                                         bounds.Max.Y, y0 + tileHeight)
                    IN  Rect(x0, y0, x1, y1)]]

\* a divider and the rectangle it is to divide
InitDivider ==
    /\ g_divider \in
           {[kind |-> "num", NumX |-> nx, NumY |-> ny, Cut |-> cut] :
               nx \in 0 .. MaxNum, ny \in 0 .. MaxNum, cut \in BOOLEAN}
           \cup
           {[kind |-> "size", Width |-> w, Height |-> h, Mode |-> mode] :
               w \in 0 .. MaxSide + 1, h \in 0 .. MaxSide + 1, mode \in DivideModes}
    /\ g_bounds \in DividerBounds
    /\ g_pc = "start"
    /\ g_res = Nil
    /\ IdleHeap("idle")
    /\ IdleBuild("idle")
    /\ IdleDivide("idle")
    /\ IdleTiles("idle")
    /\ IdleSelect("idle")
    /\ IdleCache(0)
    /\ IdleCompose("idle")
    /\ IdleParse("idle")
    /\ IdleLch("idle")
    /\ IdleMapper("idle")
    /\ IdleMetric("idle")
    /\ IdleExec("idle")

\* divider.Divide(bounds) of a FixedNumDivider
DividerDivideNum ==
    /\ g_pc = "start"
    /\ g_divider.kind = "num"
    /\ g_res' = Ptr(DivideNum(g_divider, g_bounds))
    /\ g_pc' = "done"
    /\ UNCHANGED <<notDivider, g_divider, g_bounds>>

\* divider.Divide(bounds) of a FixedSizeDivider
DividerDivideSize ==
    /\ g_pc = "start"
    /\ g_divider.kind = "size"
    /\ g_res' = Ptr(DivideSize(g_divider, g_bounds))
    /\ g_pc' = "done"
    /\ UNCHANGED <<notDivider, g_divider, g_bounds>>

NextDivider == DividerDivideNum \/ DividerDivideSize

-----------------------------------------------------------------------------
(***************************************************************************)
(* ParseCommand (the tokenizer of command lines).  A string is the         *)
(* sequence of its runes; a token list is a sequence of strings.           *)
(***************************************************************************)

\* the runes of the command lines: the space, the backslash, the double
\* quote and one other rune
Runes == {" ", "\\", "\"", "a"}

RECURSIVE Strings(_)
\* the strings of at most n runes
Strings(n) ==
    IF n = 0 THEN {<<>>}
    ELSE Strings(n - 1) \cup
         {Append(s, c) : s \in {t \in Strings(n - 1) : Len(t) = n - 1}, c \in Runes}

\* parseErr
parseErr == <<"Error parsing command line">>

\* isEOF(r, i)
isEOF(r, i) == i = Len(r)

\* an automaton that takes every rune after a backslash
EscapableAny(c) == TRUE

\* the runes of case '\\', '"' in the states 2 and 4
Escapable(c) == c \in {"\\", "\""}

\* an automaton that goes on in a quoted argument after every escape
AfterEscapeQuoted(state) == 3

\* the state after an escape: "switch back to state 1" from state 2 and
\* "switch back to state 3" from state 4
AfterEscape(state) == IF state = 2 THEN 1 ELSE 3

\* a ParseCommand that drops what is left in currentArg
PendingNever(currentArg) == FALSE

\* the test "len(currentArg) > 0" after the loop
Pending(currentArg) == Len(currentArg) > 0

\* one iteration of the loop, from [state, i, currentArg, res]: the
\* variables after it and how it ends: "next" (i++), "break" (break L) or
\* "error" (return nil, parseErr)
ParseStep(r, v) ==
    LET eof == isEOF(r, v.i)
        c == r[v.i + 1]
        next(state, currentArg, res) ==
            [state |-> state, i |-> v.i + 1, currentArg |-> currentArg,
             res |-> res, end |-> "next"]
        stop(end) ==
            [state |-> v.state, i |-> v.i, currentArg |-> v.currentArg,
             res |-> v.res, end |-> end]
    IN  CASE v.state = 0 ->
               IF eof THEN stop("break")
               ELSE IF c = " " THEN next(0, v.currentArg, v.res)
               ELSE IF c = "\\" THEN next(2, v.currentArg, v.res)
               ELSE IF c = "\"" THEN next(3, v.currentArg, v.res)
               ELSE next(1, Append(v.currentArg, c), v.res)
          [] v.state = 1 ->
               IF eof THEN stop("break")
               ELSE IF c = " " THEN next(0, <<>>, Append(v.res, v.currentArg))
               ELSE IF c = "\\" THEN next(2, v.currentArg, v.res)
               ELSE IF c = "\"" THEN stop("error")
               ELSE next(1, Append(v.currentArg, c), v.res)
          [] v.state = 3 ->
               IF eof THEN stop("error")
               ELSE IF c = "\"" THEN next(0, <<>>, Append(v.res, v.currentArg))
               ELSE IF c = "\\" THEN next(4, v.currentArg, v.res)
               ELSE next(3, Append(v.currentArg, c), v.res)
          [] OTHER ->
               IF eof THEN stop("error")
               ELSE IF Escapable(c)
               THEN next(AfterEscape(v.state), Append(v.currentArg, c), v.res)
               ELSE stop("error")

\* what ParseCommand returns after the loop was left by break
ParseEnd(v) ==
    IF Pending(v.currentArg)
    THEN <<Ptr(Append(v.res, v.currentArg)), Nil>>
    ELSE <<Ptr(v.res), Nil>>

RECURSIVE ParseFrom(_, _)
\* ParseCommand from the loop variables v on
ParseFrom(r, v) ==
    LET after == ParseStep(r, v)
    IN  IF after.end = "error" THEN <<Nil, parseErr>>
        ELSE IF after.end = "break" THEN ParseEnd(after)
        ELSE ParseFrom(r, [state |-> after.state, i |-> after.i,
                           currentArg |-> after.currentArg, res |-> after.res])

\* ParseCommand(s): <<tokens, nil>> or <<nil, parseErr>>
ParseCommand(s) ==
    ParseFrom(s, [state |-> 0, i |-> 0, currentArg |-> <<>>, res |-> <<>>])

\* ParseCommand(s) is called: the variables before the loop
InitParse ==
    /\ k_r \in Strings(MaxInput)
    /\ k_state = 0
    /\ k_i = 0
    /\ k_currentArg = <<>>
    /\ k_res = <<>>
    /\ k_pc = "loop"
    /\ k_ret = Nil
    /\ IdleHeap("idle")
    /\ IdleBuild("idle")
    /\ IdleDivide("idle")
    /\ IdleTiles("idle")
    /\ IdleSelect("idle")
    /\ IdleCache(0)
    /\ IdleCompose("idle")
    /\ IdleDivider("idle")
    /\ IdleLch("idle")
    /\ IdleMapper("idle")
    /\ IdleMetric("idle")
    /\ IdleExec("idle")

\* one iteration of the loop
ParseLoop ==
    /\ k_pc = "loop"
    /\ LET after == ParseStep(k_r, [state |-> k_state, i |-> k_i,
                                    currentArg |-> k_currentArg, res |-> k_res])
       IN  /\ k_state' = after.state
           /\ k_i' = after.i
           /\ k_currentArg' = after.currentArg
           /\ k_res' = after.res
           /\ k_pc' = CASE after.end = "next" -> "loop"
                        [] after.end = "break" -> "after"
                        [] OTHER -> "done"
           /\ k_ret' = IF after.end = "error" THEN <<Nil, parseErr>> ELSE Nil
    /\ UNCHANGED <<notParse, k_r>>

\* after the loop: what is left in currentArg is the last token
ParseReturn ==
    /\ k_pc = "after"
    /\ k_ret' = ParseEnd([currentArg |-> k_currentArg, res |-> k_res])
    /\ k_pc' = "done"
    /\ UNCHANGED <<notParse, k_r, k_state, k_i, k_currentArg, k_res>>

NextParse == ParseLoop \/ ParseReturn

-----------------------------------------------------------------------------
(***************************************************************************)
(* LCH.Dist (the version next to the LCH storages): one goroutine per      *)
(* histogram sends |delta(h1, h2)| on the channel res, the caller sums     *)
(* what it receives.  delta is the histogram metric of Manhattan.          *)
(***************************************************************************)

\* the entries of a histogram, and the histograms with 1 .. MaxEntries entries
EntryValues == {0, 1}

Histograms == UNION {[1 .. n -> EntryValues] : n \in 1 .. MaxEntries}

\* LCH.Histograms: 0 .. MaxHistograms histograms
LCHs == UNION {[1 .. n -> Histograms] : n \in 0 .. MaxHistograms}

\* math.Abs
Abs(x) == IF x < 0 THEN 0 - x ELSE x

\* Manhattan: the loop ranges over p and reads q[i]; the read is out of range
\* (a run-time panic) when q is shorter than p, and the entries of q past
\* len(p) are never read
RECURSIVE ManhattanFrom(_, _, _)
ManhattanFrom(p, q, i) ==
    IF i > Len(p) THEN 0
    ELSE Abs(p[i] - q[i]) + ManhattanFrom(p, q, i + 1)

Manhattan(p, q) ==
    IF Len(q) < Len(p) THEN [panic |-> TRUE, value |-> 0]
    ELSE [panic |-> FALSE, value |-> ManhattanFrom(p, q, 1)]

\* HistogramVectorMetric(Manhattan)
delta(hA, hB) == Manhattan(hA, hB)

lchErr == <<"Invalid LCH dimensions">>

InitLch ==
    /\ l_lch \in LCHs
    /\ l_other \in LCHs
    /\ l_pc = "start"
    /\ l_pending = {}
    /\ l_res = <<>>
    /\ l_sum = 0
    /\ l_received = 0
    /\ l_ret = Nil
    /\ l_evaluated = {}
    /\ IdleHeap("idle")
    /\ IdleBuild("idle")
    /\ IdleDivide("idle")
    /\ IdleTiles("idle")
    /\ IdleSelect("idle")
    /\ IdleCache(0)
    /\ IdleCompose("idle")
    /\ IdleDivider("idle")
    /\ IdleParse("idle")
    /\ IdleMapper("idle")
    /\ IdleMetric("idle")
    /\ IdleExec("idle")

\* the check of the two lengths, then the go statements of the first loop
LchDistStart ==
    /\ l_pc = "start"
    /\ IF Len(l_lch) # Len(l_other)
       THEN /\ l_ret' = <<-1, lchErr>>
            /\ l_pc' = "done"
            /\ UNCHANGED l_pending
       ELSE /\ l_pending' = DOMAIN l_lch
            /\ l_pc' = "run"
            /\ UNCHANGED l_ret
    /\ UNCHANGED <<notLch, l_lch, l_other, l_res, l_sum, l_received,
                   l_evaluated>>

\* the goroutine of one index: res <- math.Abs(delta(...))
LchGoroutine(index) ==
    /\ l_pc = "run"
    /\ index \in l_pending
    /\ l_pending' = l_pending \ {index}
    /\ l_evaluated' = l_evaluated \cup {index}
    /\ LET d == delta(l_lch[index], l_other[index])
       IN  IF d.panic
           THEN /\ l_pc' = "panic"
                /\ UNCHANGED l_res
           ELSE /\ l_res' = Append(l_res, Abs(d.value))
                /\ UNCHANGED l_pc
    /\ UNCHANGED <<notLch, l_lch, l_other, l_sum, l_received, l_ret>>

\* one iteration of the second loop: sum += <-res
LchReceive ==
    /\ l_pc = "run"
    /\ l_received < Len(l_lch)
    /\ l_res # <<>>
    /\ l_sum' = l_sum + Head(l_res)
    /\ l_res' = Tail(l_res)
    /\ l_received' = l_received + 1
    /\ UNCHANGED <<notLch, l_lch, l_other, l_pc, l_pending, l_ret,
                   l_evaluated>>

\* return sum, nil
LchReturn ==
    /\ l_pc = "run"
    /\ l_received = Len(l_lch)
    /\ l_ret' = <<l_sum, Nil>>
    /\ l_pc' = "done"
    /\ UNCHANGED <<notLch, l_lch, l_other, l_pending, l_res, l_sum,
                   l_received, l_evaluated>>

NextLch ==
    \/ LchDistStart
    \/ \E index \in 1 .. MaxHistograms : LchGoroutine(index)
    \/ LchReceive
    \/ LchReturn

-----------------------------------------------------------------------------
(***************************************************************************)
(* FSMapper: Register, Clear and Load on one mapper                        *)
(***************************************************************************)

\* the absolute paths of the image files, in the order in which ReadDir and
\* filepath.Walk list them
PathOrder == <<"/d/a.jpg", "/d/b.jpg", "/d/c.jpg">>

Paths == {PathOrder[n] : n \in DOMAIN PathOrder}

\* the files of a directory that the filter accepts, in listing order
Listing(files) == SelectSeq(PathOrder, LAMBDA f : f \in files)

\* NewFSMapper
NewFSMapper == [NameMapping |-> {}, IDMapping |-> <<>>]

\* Register: NameMapping is the set of its <<path, id>> pairs
Register(m, path) ==
    IF \E e \in m.NameMapping : e[1] = path
    THEN [m |-> m, id |-> -1, ok |-> FALSE]
    ELSE LET id == Len(m.IDMapping)
         IN  [m |-> [NameMapping |-> m.NameMapping \cup {<<path, id>>},
                     IDMapping |-> Append(m.IDMapping, path)],
              id |-> id, ok |-> TRUE]

\* the files that loadNonRecursive / the walk function of loadRecursive
\* register, with the pairs the calls of Register returned with true
RECURSIVE RegisterAll(_, _, _)
RegisterAll(m, files, assigned) ==
    IF files = <<>> THEN [m |-> m, assigned |-> assigned]
    ELSE LET r == Register(m, Head(files))
         IN  RegisterAll(r.m, Tail(files),
                 IF r.ok THEN assigned \cup {<<r.id, Head(files)>>}
                 ELSE assigned)

Mapper == [NameMapping |-> f_NameMapping, IDMapping |-> f_IDMapping]

InitMapper ==
    /\ f_NameMapping = NewFSMapper.NameMapping
    /\ f_IDMapping = NewFSMapper.IDMapping
    /\ f_ret = <<"new">>
    /\ f_assigned = {}
    /\ f_ops = 0
    /\ IdleHeap("idle")
    /\ IdleBuild("idle")
    /\ IdleDivide("idle")
    /\ IdleTiles("idle")
    /\ IdleSelect("idle")
    /\ IdleCache(0)
    /\ IdleCompose("idle")
    /\ IdleDivider("idle")
    /\ IdleParse("idle")
    /\ IdleLch("idle")
    /\ IdleMetric("idle")
    /\ IdleExec("idle")

MapperRegister(path) ==
    /\ f_ops < MaxMapperOps
    /\ f_ops' = f_ops + 1
    /\ LET r == Register(Mapper, path)
       IN  /\ f_NameMapping' = r.m.NameMapping
           /\ f_IDMapping' = r.m.IDMapping
           /\ f_ret' = <<r.id, r.ok>>
           /\ f_assigned' = IF r.ok THEN f_assigned \cup {<<r.id, path>>}
                            ELSE f_assigned
    /\ UNCHANGED notMapper

MapperClear ==
    /\ f_ops < MaxMapperOps
    /\ f_ops' = f_ops + 1
    /\ f_NameMapping' = {}
    /\ f_IDMapping' = <<>>
    /\ f_ret' = <<"void">>
    /\ UNCHANGED <<notMapper, f_assigned>>

\* Load on a directory holding files; the scan lists the first n of them and
\* fails after that when n is less than their number
MapperLoad(files, n) ==
    /\ f_ops < MaxMapperOps
    /\ f_ops' = f_ops + 1
    /\ n \in 0 .. Len(Listing(files))
    /\ LET r == RegisterAll(Mapper, SubSeq(Listing(files), 1, n), f_assigned)
       IN  /\ f_NameMapping' = r.m.NameMapping
           /\ f_IDMapping' = r.m.IDMapping
           /\ f_assigned' = r.assigned
    /\ f_ret' = IF n < Len(Listing(files)) THEN <<"err">> ELSE <<"nil">>
    /\ UNCHANGED notMapper

NextMapper ==
    \/ \E path \in Paths : MapperRegister(path)
    \/ MapperClear
    \/ \E files \in SUBSET Paths : \E n \in 0 .. Len(PathOrder) :
           MapperLoad(files, n)

-----------------------------------------------------------------------------
(***************************************************************************)
(* The pipeline of a mosaic: dist := div.Divide(img.Bounds()), then        *)
(* GCHSelector / LCHSelector (a minimizer whose metric runs                *)
(* InitTilesHelper) .SelectImages(storage, img, dist), then                *)
(* ComposeMosaic(storage, selection, dist, ...).                           *)
(***************************************************************************)

\* the bounds of the query image: three empty rectangles and two with pixels
PipelineBounds ==
    {Rect(0, 0, 0, 0), Rect(0, 0, 0, 1), Rect(0, 0, 1, 0),
     Rect(0, 0, 1, 1), Rect(0, 0, 2, 1)}

\* the dividers NewFixedNumDivider(numX, 1, cut)
PipelineDividers ==
    {[kind |-> "num", NumX |-> nx, NumY |-> 1, Cut |-> cut] :
        nx \in {1, 2}, cut \in BOOLEAN}

\* the argument numRoutines of GCHSelector / LCHSelector
PipelineRoutines == {0, 2}

\* the number of images of the storage
PipelineImages == {0, 1}

\* the row lengths of a TileDivision
RowLengths(division) == [i \in DOMAIN division |-> Len(division[i])]

InitPipeline ==
    /\ g_divider \in PipelineDividers
    /\ g_bounds \in PipelineBounds
    /\ g_pc = "start"
    /\ g_res = Nil
    /\ t_metric \in {"hist", "lch"}
    /\ t_dist = <<>>
    /\ t_numRoutines \in PipelineRoutines
    /\ t_pc = "wait"
    /\ t_workers = <<>>
    /\ t_next = 0
    /\ t_closed = FALSE
    /\ t_jobs = <<>>
    /\ t_errors = <<>>
    /\ t_tileData = <<>>
    /\ t_count = 0
    /\ t_err = Nil
    /\ t_ret = Nil
    /\ t_received = <<>>
    /\ t_calls = <<>>
    /\ d_subImager \in BOOLEAN
    /\ d_dist = <<>>
    /\ d_numRoutines = 0
    /\ d_pc = "idle"
    /\ d_workers = <<>>
    /\ d_pi = 0
    /\ d_pj = -1
    /\ d_closed = FALSE
    /\ d_jobs = <<>>
    /\ d_errorChan = <<>>
    /\ d_res = <<>>
    /\ d_count = 0
    /\ d_err = Nil
    /\ d_ret = Nil
    /\ d_received = <<>>
    /\ m_numImages \in PipelineImages
    /\ m_readable \in SUBSET (0 .. m_numImages - 1)
    /\ m_symbolicTiles = <<>>
    /\ m_mosaicDivison = <<>>
    /\ m_pc = "wait"
    /\ m_i = 0
    /\ m_j = 0
    /\ m_res = Nil
    /\ m_ret = Nil
    /\ m_lookups = <<>>
    /\ m_loads = <<>>
    /\ m_errs = <<>>
    /\ IdleHeap("idle")
    /\ IdleBuild("idle")
    /\ IdleSelect("wait")
    /\ IdleCache(0)
    /\ IdleParse("idle")
    /\ IdleLch("idle")
    /\ IdleMapper("idle")
    /\ IdleMetric("idle")
    /\ IdleExec("idle")

\* selector.SelectImages(storage, img, dist) is called with the division
\* Divide returned; it begins with min.Metric.InitTiles(storage, query, dist),
\* which calls InitTilesHelper with the metric's NumRoutines
PipelineSelectImages ==
    /\ g_pc = "done"
    /\ s_pc = "wait"
    /\ s_pc' = "start"
    /\ s_sel' = "min"
    /\ s_dist' = RowLengths(Deref(g_res))
    /\ s_numImages' = m_numImages
    /\ s_k' = 0
    /\ s_numRoutines' = t_numRoutines
    /\ t_pc' = "start"
    /\ t_dist' = RowLengths(Deref(g_res))
    /\ UNCHANGED <<hvars, bvars, dvars, cvars, mvars, gvars, kvars, lvars,
                   fvars, rvars, evars, s_workers, s_next, s_numDone,
                   s_closed, s_jobs,
                   s_errors, s_wg, s_result, s_bestValues, s_heaps, s_err,
                   s_views, s_pos, s_colDist, s_assigned, s_ret, s_seen,
                   s_progress, t_metric, t_numRoutines, t_workers, t_next,
                   t_closed, t_jobs, t_errors, t_tileData, t_count, t_err,
                   t_ret, t_received, t_calls>>

\* InitTiles has returned what InitTilesHelper returned: SelectImages goes on
PipelineInitTilesReturn ==
    /\ t_pc \in {"done", "divfail"}
    /\ SelAfterInitTiles(t_ret[1])

\* ComposeMosaic(storage, selection, dist, ...) is called with the selection
\* SelectImages returned with a nil error
PipelineComposeMosaic ==
    /\ s_pc = "done"
    /\ s_ret[2] = Nil
    /\ m_pc = "wait"
    /\ m_pc' = "start"
    /\ m_symbolicTiles' = Deref(s_ret[1])
    /\ m_mosaicDivison' = Deref(g_res)
    /\ UNCHANGED <<hvars, bvars, dvars, tvars, svars, cvars, gvars, kvars,
                   lvars, fvars, rvars, evars, m_numImages, m_readable,
                   m_i, m_j, m_res, m_ret, m_lookups, m_loads, m_errs>>

NextPipeline ==
    \/ DividerDivideNum
    \/ PipelineSelectImages
    \/ NextTiles
    \/ PipelineInitTilesReturn
    \/ SelProduce
    \/ SelMinProgress
    \/ SelClose
    \/ \E w \in 1 .. Len(s_workers) : SelMinWork(w)
    \/ SelMinReturn
    \/ PipelineComposeMosaic
    \/ NextCompose

-----------------------------------------------------------------------------
(***************************************************************************)
(* Histogram metrics: CanberraDistance and the registry of named metrics.  *)
(* A float64 that the metric computes from entries with integer value is   *)
(* NaN, +Inf or a fraction in lowest terms.                                *)
(***************************************************************************)

\* the float64 values NaN and +Inf
NaN == [kind |-> "NaN", num |-> 0, den |-> 0]

PosInf == [kind |-> "+Inf", num |-> 1, den |-> 0]

RECURSIVE Gcd(_, _)
Gcd(a, b) == IF b = 0 THEN a ELSE Gcd(b, a % b)

\* the finite float64 num / den, den > 0
Fraction(num, den) ==
    [kind |-> "finite", num |-> num \div Gcd(num, den),
     den |-> den \div Gcd(num, den)]

\* the float64 division numerator / denominator of two floats that are not
\* negative: 0 / 0 is NaN and x / 0 is +Inf for x > 0
FloatDiv(numerator, denominator) ==
    IF denominator = 0
    THEN IF numerator = 0 THEN NaN ELSE PosInf
    ELSE Fraction(numerator, denominator)

\* the float64 addition x + y of two values that are NaN, +Inf or not
\* negative: NaN + y is NaN
FloatAdd(x, y) ==
    IF x.kind = "NaN" \/ y.kind = "NaN" THEN NaN
    ELSE IF x.kind = "+Inf" \/ y.kind = "+Inf" THEN PosInf
    ELSE Fraction(x.num * y.den + y.num * x.den, x.den * y.den)

\* CanberraDistance: res after the iterations i .. len(p) of the loop
RECURSIVE CanberraFrom(_, _, _, _)
CanberraFrom(p, q, i, res) ==
    IF i > Len(p) THEN res
    ELSE LET numerator == Abs(p[i] - q[i])
             denominator == Abs(p[i]) + Abs(q[i])
         IN  CanberraFrom(p, q, i + 1,
                          FloatAdd(res, FloatDiv(numerator, denominator)))

\* CanberraDistance(p, q): as Manhattan it ranges over p and reads q[i]
CanberraDistance(p, q) ==
    IF Len(q) < Len(p) THEN [panic |-> TRUE, value |-> Fraction(0, 1)]
    ELSE [panic |-> FALSE, value |-> CanberraFrom(p, q, 1, Fraction(0, 1))]

\* HistogramVectorMetric(vm): the histogram metric that calls the vector
\* metric vm on the entries of the two histograms
HistogramVectorMetric(vm) == [vm |-> vm]

\* the call m(hA, hB) of a histogram metric, for the vector metrics modelled
MetricCall(m, hA, hB) ==
    IF m.vm = "CanberraDistance" THEN CanberraDistance(hA, hB)
    ELSE LET v == Manhattan(hA, hB)
         IN  [panic |-> v.panic, value |-> Fraction(v.value, 1)]

\* the names given to the registry
MetricNames ==
    {"manhattan", "euclid", "min", "cosine", "chessboard", "canberra",
     "euclidean", "Euclid", "CANBERRA", "hamming"}

\* strings.ToLower on the names given
ToLower(name) ==
    CASE name = "Euclid" -> "euclid"
      [] name = "CANBERRA" -> "canberra"
      [] OTHER -> name

\* RegisterHistogramMetric: the map after the call and the result
RegisterHistogramMetric(metrics, name, metric) ==
    IF ToLower(name) \in DOMAIN metrics
    THEN [metrics |-> metrics, ok |-> FALSE]
    ELSE [metrics |-> (ToLower(name) :> metric) @@ metrics, ok |-> TRUE]

\* GetHistogramMetric: <<metric, true>> or <<nil, false>>
GetHistogramMetric(metrics, name) ==
    IF ToLower(name) \in DOMAIN metrics
    THEN <<Ptr(metrics[ToLower(name)]), TRUE>>
    ELSE <<Nil, FALSE>>

\* the registrations of init(), in order
DefaultMetrics ==
    << <<"manhattan", "Manhattan">>, <<"euclid", "EuclideanDistance">>,
       <<"min", "MinDistance">>, <<"cosine", "CosineSimilarity">>,
       <<"chessboard", "ChessboardDistance">>,
       <<"canberra", "CanberraDistance">> >>

\* the map after the first n registrations of init()
RECURSIVE RegisterDefaults(_)
RegisterDefaults(n) ==
    IF n = 0 THEN <<>>
    ELSE RegisterHistogramMetric(RegisterDefaults(n - 1), DefaultMetrics[n][1],
             HistogramVectorMetric(DefaultMetrics[n][2])).metrics

\* a metric argument of the commands: <<"gch">>, <<"gch-", name>> for the
\* string "gch-" + name, or another string
MetricArgs ==
    {<<"gch">>, <<"lch">>, <<"foo">>} \cup {<<"gch-", name>> : name \in MetricNames}

\* parseGCHMetric(s): <<metric, nil>> or <<nil, err>>
parseGCHMetric(metrics, s) ==
    IF s # <<"gch">> /\ s[1] # "gch-" THEN <<Nil, <<"Invalid gch format">>>>
    ELSE LET metricName == IF s = <<"gch">> THEN "euclid" ELSE s[2]
             got == GetHistogramMetric(metrics, metricName)
         IN  IF got[2] THEN <<got[1], Nil>>
             ELSE <<Nil, <<"Unkown metric", metricName>>>>

\* the package is initialized: init() has run
InitMetric ==
    /\ r_histogramMetrics = RegisterDefaults(Len(DefaultMetrics))
    /\ r_ret = <<"init">>
    /\ r_ops = 0
    /\ IdleHeap("idle")
    /\ IdleBuild("idle")
    /\ IdleDivide("idle")
    /\ IdleTiles("idle")
    /\ IdleSelect("idle")
    /\ IdleCache(0)
    /\ IdleCompose("idle")
    /\ IdleDivider("idle")
    /\ IdleParse("idle")
    /\ IdleLch("idle")
    /\ IdleMapper("idle")
    /\ IdleExec("idle")

\* a call of RegisterHistogramMetric
MetricRegister(name, vm) ==
    /\ r_ops < MaxMetricOps
    /\ r_ops' = r_ops + 1
    /\ LET r == RegisterHistogramMetric(r_histogramMetrics, name,
                                        HistogramVectorMetric(vm))
       IN  /\ r_histogramMetrics' = r.metrics
           /\ r_ret' = <<"register", name, r.ok>>
    /\ UNCHANGED notMetric

\* a call of GetHistogramMetric
MetricGet(name) ==
    /\ r_ops < MaxMetricOps
    /\ r_ops' = r_ops + 1
    /\ r_ret' = <<"get", name, GetHistogramMetric(r_histogramMetrics, name)>>
    /\ UNCHANGED <<notMetric, r_histogramMetrics>>

\* a call of parseGCHMetric
MetricParseGCH(s) ==
    /\ r_ops < MaxMetricOps
    /\ r_ops' = r_ops + 1
    /\ r_ret' = <<"parse", s, parseGCHMetric(r_histogramMetrics, s)>>
    /\ UNCHANGED <<notMetric, r_histogramMetrics>>

\* the metric registered under name is called on two histograms
MetricDistance(name, hA, hB) ==
    /\ r_ops < MaxMetricOps
    /\ r_ops' = r_ops + 1
    /\ LET got == GetHistogramMetric(r_histogramMetrics, name)
       IN  /\ got[2]
           /\ Deref(got[1]).vm \in {"Manhattan", "CanberraDistance"}
           /\ r_ret' = <<"dist", Deref(got[1]).vm, hA, hB,
                         MetricCall(Deref(got[1]), hA, hB)>>
    /\ UNCHANGED <<notMetric, r_histogramMetrics>>

NextMetric ==
    \/ \E name \in MetricNames : \E vm \in {"Manhattan", "CanberraDistance"} :
         MetricRegister(name, vm)
    \/ \E name \in MetricNames : MetricGet(name)
    \/ \E s \in MetricArgs : MetricParseGCH(s)
    \/ \E name \in {"manhattan", "canberra", "hamming"} :
         \E hA \in Histograms : \E hB \in Histograms :
           MetricDistance(name, hA, hB)

-----------------------------------------------------------------------------
(***************************************************************************)
(* Execute, the command loop, with the ScriptHandler and the ReplHandler,  *)
(* and the commands that read or write the mapper and the descriptor       *)
(* storages of the ExecutorState.  A line is a sequence of runes and is    *)
(* parsed by ParseCommand.  What the file system and the computations      *)
(* answer is the input env of an iteration: the files of the directory     *)
(* read, how many of them are listed before the scan fails, and whether    *)
(* the other calls succeed.                                                *)
(***************************************************************************)

\* the words of the lines
Words ==
    [storage |-> <<"s", "t", "o", "r", "a", "g", "e">>,
     gch |-> <<"g", "c", "h">>,
     lch |-> <<"l", "c", "h">>,
     mosaic |-> <<"m", "o", "s", "a", "i", "c">>,
     load |-> <<"l", "o", "a", "d">>,
     create |-> <<"c", "r", "e", "a", "t", "e">>,
     true |-> <<"t", "r", "u", "e">>,
     dir |-> <<"d">>,
     four |-> <<"4">>,
     in |-> <<"i", ".", "p", "n", "g">>,
     out |-> <<"o", ".", "j", "p", "g">>,
     tiles |-> <<"2", "x", "2">>,
     foo |-> <<"f", "o", "o">>]

\* the line of the words ws, separated by one space
RECURSIVE Line(_)
Line(ws) ==
    IF Len(ws) = 0 THEN <<>>
    ELSE IF Len(ws) = 1 THEN ws[1]
    ELSE ws[1] \o <<" ">> \o Line(Tail(ws))

\* the lines of the scripts: commands, an unknown command, an empty line and
\* a line with a quote that is not closed
ScriptLines ==
    {Line(<<Words.storage, Words.load, Words.dir, Words.true>>),
     Line(<<Words.storage, Words.load, Words.dir, Words.foo>>),
     Line(<<Words.gch, Words.create>>),
     Line(<<Words.lch, Words.create, Words.four, Words.four>>),
     Line(<<Words.mosaic, Words.in, Words.out, Words.gch, Words.tiles>>),
     Line(<<Words.foo>>),
     <<>>,
     <<"\"", "a">>}

\* ParseCommand(line) for the lines of the scripts
ParsedLines == [line \in ScriptLines |-> ParseCommand(line)]

Scripts == UNION {[1 .. n -> ScriptLines] : n \in 0 .. MaxLines}

\* the directories read by Load
Dirs == {{}, {PathOrder[1]}, {PathOrder[1], PathOrder[2]}}

Envs ==
    {e \in [files : Dirs, n : 0 .. Len(PathOrder), ok : BOOLEAN] :
        e.n <= Len(Listing(e.files))}

\* the error values of the commands
ErrCmdSyntaxErr == <<"invalid command syntax">>

boolErr == <<"strconv.ParseBool">>

pathErr == <<"GetPath">>

loadErr == <<"Mapper.Load">>

envErr == <<"error">>

\* the names of DefaultCommands that are modelled
commandMap == {Words.storage, Words.gch, Words.lch, Words.mosaic}

\* strconv.ParseBool returns no error on the word
ParseBoolOk(w) == w = Words.true

\* strings.HasPrefix(s, prefix)
HasPrefix(s, prefix) ==
    Len(s) >= Len(prefix) /\ SubSeq(s, 1, Len(prefix)) = prefix

\* JPGAndPNG(filepath.Ext(w)) for a word with an extension of three runes
JPGAndPNG(w) ==
    /\ Len(w) >= 4
    /\ SubSeq(w, Len(w) - 3, Len(w)) \in
           {<<".", "j", "p", "g">>, <<".", "p", "n", "g">>}

\* what a command returns: the state it leaves and its error
Returns(state, err) == [state |-> state, err |-> err]

\* a "storage load" that keeps the descriptor storages
InvalidateNothing(state) == state

\* "make gchs invalid", "make lchs invalid"
Invalidate(state) ==
    [state EXCEPT !.GCHStorage = Nil, !.LCHStorage = Nil]

\* state.Mapper.Clear()
ClearMapper(state) == [state EXCEPT !.Mapper = NewFSMapper]

\* ImageStorageCommand
ImageStorageCommand(state, args, env) ==
    IF Len(args) = 0 THEN Returns(state, Nil)
    ELSE IF args[1] # Words.load THEN Returns(state, ErrCmdSyntaxErr)
    ELSE IF Len(args) > 2 /\ ~ParseBoolOk(args[3]) THEN Returns(state, boolErr)
    ELSE IF Len(args) > 1 /\ ~env.ok THEN Returns(state, pathErr)
    ELSE LET cleared == Invalidate(ClearMapper(state))
             listed == SubSeq(Listing(env.files), 1, env.n)
             loaded == RegisterAll(cleared.Mapper, listed, {}).m
         IN  IF env.n < Len(Listing(env.files))
             THEN Returns(Invalidate(ClearMapper(
                      [cleared EXCEPT !.Mapper = loaded])), loadErr)
             ELSE Returns([cleared EXCEPT !.Mapper = loaded], Nil)

\* the storage that "create" and "load" build: the descriptor of the id i
\* is the descriptor of the image that the mapper has at the id i
StorageFor(mapper) == Ptr(mapper.IDMapping)

\* GCHCommand, for "create"
GCHCommand(state, args, env) ==
    IF Len(args) = 0 \/ args[1] # Words.create
    THEN Returns(state, ErrCmdSyntaxErr)
    ELSE IF ~env.ok THEN Returns(state, envErr)
    ELSE Returns([state EXCEPT !.GCHStorage = StorageFor(state.Mapper)], Nil)

\* LCHCommand, for "create"
LCHCommand(state, args, env) ==
    IF Len(args) = 0 \/ args[1] # Words.create \/ Len(args) < 3
    THEN Returns(state, ErrCmdSyntaxErr)
    ELSE IF ~env.ok THEN Returns(state, envErr)
    ELSE Returns([state EXCEPT !.LCHStorage = StorageFor(state.Mapper)], Nil)

\* MosaicCommand: the tests before the query image is read.  With env.ok
\* every call on the file system and the selection and composition succeed;
\* without it the first of them, GetPath on the output file, fails
MosaicCommand(state, args, env) ==
    IF Len(state.Mapper.IDMapping) = 0
    THEN Returns(state, <<"No images in storage">>)
    ELSE IF Len(args) <= 3 THEN Returns(state, ErrCmdSyntaxErr)
    ELSE IF ~JPGAndPNG(args[2]) THEN Returns(state, <<"Supported files">>)
    ELSE IF ~env.ok THEN Returns(state, pathErr)
    ELSE IF HasPrefix(args[3], Words.gch)
    THEN IF state.GCHStorage = Nil
         THEN Returns(state, <<"No GCH data loaded">>)
         ELSE Returns(state, Nil)
    ELSE IF HasPrefix(args[3], Words.lch)
    THEN IF state.LCHStorage = Nil
         THEN Returns(state, <<"No LCH data loaded">>)
         ELSE Returns(state, Nil)
    ELSE Returns(state, <<"Invalid image selector">>)

\* nextCmd.Exec(state, parsedCmd[1:]...)
Exec(cmd, state, args, env) ==
    CASE cmd = Words.storage -> ImageStorageCommand(state, args, env)
      [] cmd = Words.gch -> GCHCommand(state, args, env)
      [] cmd = Words.lch -> LCHCommand(state, args, env)
      [] OTHER -> MosaicCommand(state, args, env)

\* what OnParseErr, OnInvalidCmd and OnError return: the ReplHandler goes
\* on, the ScriptHandler stops
Continues(handler, callback) == handler = "repl"

\* an Execute that goes on whatever the callback returns
AfterCallbackLoop(continues) == "loop"

\* "if !handler.On...(...) { return }"
AfterCallback(continues) == IF continues THEN "loop" ELSE "returned"

\* the ExecutorState
State ==
    [Mapper |-> e_Mapper, GCHStorage |-> e_GCHStorage,
     LCHStorage |-> e_LCHStorage]

\* one iteration of the loop of Execute on the line parsed as tokens or not
\* parsed: how it ends, the state it leaves and the position after it
Iteration(handler, parsed, state, env) ==
    IF parsed[2] # Nil
    THEN [kind |-> "OnParseErr", state |-> state, err |-> parsed[2],
          pc |-> AfterCallback(Continues(handler, "OnParseErr"))]
    ELSE IF Len(Deref(parsed[1])) = 0
    THEN [kind |-> "empty", state |-> state, err |-> Nil, pc |-> "loop"]
    ELSE IF Head(Deref(parsed[1])) \in commandMap
    THEN LET r == Exec(Head(Deref(parsed[1])), state,
                       Tail(Deref(parsed[1])), env)
         IN  IF r.err = Nil
             THEN [kind |-> "OnSuccess", state |-> r.state, err |-> Nil,
                   pc |-> "loop"]
             ELSE [kind |-> "OnError", state |-> r.state, err |-> r.err,
                   pc |-> AfterCallback(Continues(handler, "OnError"))]
    ELSE [kind |-> "OnInvalidCmd", state |-> state, err |-> Nil,
          pc |-> AfterCallback(Continues(handler, "OnInvalidCmd"))]

\* Execute is called: handler.Init() and handler.Start(state) have run
InitExec ==
    /\ e_handler \in {"script", "repl"}
    /\ e_lines \in Scripts
    /\ e_pos = 0
    /\ e_pc = "loop"
    /\ e_Mapper = NewFSMapper
    /\ e_GCHStorage = Nil
    /\ e_LCHStorage = Nil
    /\ e_log = <<>>
    /\ IdleHeap("idle")
    /\ IdleBuild("idle")
    /\ IdleDivide("idle")
    /\ IdleTiles("idle")
    /\ IdleSelect("idle")
    /\ IdleCache(0)
    /\ IdleCompose("idle")
    /\ IdleDivider("idle")
    /\ IdleParse("idle")
    /\ IdleLch("idle")
    /\ IdleMapper("idle")
    /\ IdleMetric("idle")

\* scanner.Scan() returns true: one iteration of the loop
ExecLine ==
    /\ e_pc = "loop"
    /\ e_pos < Len(e_lines)
    /\ LET parsed == ParsedLines[e_lines[e_pos + 1]]
       IN  \E env \in Envs :
             LET it == Iteration(e_handler, parsed, State, env)
             IN  /\ e_pc' = it.pc
                 /\ e_Mapper' = it.state.Mapper
                 /\ e_GCHStorage' = it.state.GCHStorage
                 /\ e_LCHStorage' = it.state.LCHStorage
                 /\ e_log' = Append(e_log,
                        [line |-> e_pos + 1, kind |-> it.kind,
                         err |-> it.err, before |-> State])
    /\ e_pos' = e_pos + 1
    /\ UNCHANGED <<notExec, e_handler, e_lines>>

\* scanner.Scan() returns false at the end of the input
ExecEOF ==
    /\ e_pc = "loop"
    /\ e_pos = Len(e_lines)
    /\ e_pc' = "eof"
    /\ UNCHANGED <<notExec, e_handler, e_lines, e_pos, e_Mapper, e_GCHStorage,
                   e_LCHStorage, e_log>>

\* scanner.Scan() returns false on a read error: OnScanErr is called
ExecScanErr ==
    /\ e_pc = "loop"
    /\ e_pos < Len(e_lines)
    /\ e_pc' = "OnScanErr"
    /\ UNCHANGED <<notExec, e_handler, e_lines, e_pos, e_Mapper, e_GCHStorage,
                   e_LCHStorage, e_log>>

NextExec ==
    \/ ExecLine
    \/ ExecEOF
    \/ ExecScanErr

-----------------------------------------------------------------------------
(* The specifications *)

SpecHeap == InitHeap /\ [][NextHeap]_vars

SpecBuild == InitBuild /\ [][NextBuild]_vars

\* CreateLCHs (the builder with the most kinds of failing jobs) on the ids
\* in order, without a progress callback
InitBuildLive ==
    /\ InitBuild
    /\ b_kind = "lch"
    /\ b_ids = IDList(Len(b_ids))
    /\ ~b_progressSet

\* the builder under the Go scheduler: a goroutine that can take a step is
\* not left waiting forever
SpecBuildLive == InitBuildLive /\ [][NextBuild]_vars /\ WF_vars(NextBuild)

SpecTiles == InitTiles /\ [][NextTiles]_vars

SpecSelect == InitSelect /\ [][NextSelect]_vars

SpecWalk == InitWalk /\ [][NextWalk]_vars

SpecCache == InitCache /\ [][NextCache]_vars

SpecCompose == InitCompose /\ [][NextCompose]_vars

SpecDivider == InitDivider /\ [][NextDivider]_vars

SpecParse == InitParse /\ [][NextParse]_vars

SpecLch == InitLch /\ [][NextLch]_vars

SpecMapper == InitMapper /\ [][NextMapper]_vars

SpecPipeline == InitPipeline /\ [][NextPipeline]_vars

SpecMetric == InitMetric /\ [][NextMetric]_vars

SpecExec == InitExec /\ [][NextExec]_vars

-----------------------------------------------------------------------------
(***************************************************************************)
(* Properties of the Image Heap                                            *)
(***************************************************************************)

IsView(r) == r[1] = "view"

\* the entries of a sequence, as a set
Entries(s) == {s[i] : i \in 1 .. Len(s)}

SortedAscending(v) ==
    \A i \in 1 .. Len(v) : \A j \in i .. Len(v) : v[i].Value <= v[j].Value

\* C9: a heap created with bound 0 keeps nothing: any number of pushes can be
\* made on it (no call panics) and a view taken then is the empty sequence.
C9_BoundZeroKeepsNothing ==
    h_bound = 0 =>
        /\ h_pc = "run"
        /\ IsView(h_ret) => h_ret[2] = <<>>

\* C10: with bound b >= 1 the heap holds exactly min(N, b) entries after N
\* pushes, and a view returns exactly these entries in ascending score order.
C10_SizeAndSortedView ==
    h_bound >= 1 =>
        /\ h_pc = "run"
        /\ Len(Deref(h_interf)) = Min2(Len(h_pushed), h_bound)
        /\ IsView(h_ret) =>
              /\ Len(h_ret[2]) = Min2(Len(h_pushed), h_bound)
              /\ Entries(h_ret[2]) = Entries(Deref(h_interf))
              /\ SortedAscending(h_ret[2])

\* C10 witness: more pushes than the bound, and a view of two or more entries
\* with different scores
C10_Witness ==
    /\ h_bound >= 2
    /\ Len(h_pushed) > h_bound
    /\ IsView(h_ret)
    /\ Len(h_ret[2]) = h_bound
    /\ h_ret[2][1].Value < h_ret[2][Len(h_ret[2])].Value

\* C11: with bound b >= 1 the heap retains, after any sequence of pushes,
\* min(N, b) of the entries pushed, and no entry that was pushed and is not
\* retained has a smaller score than a retained one.
C11_SmallestRetained ==
    h_bound >= 1 =>
        LET retained == Entries(Deref(h_interf))
            pushed == Entries(h_pushed)
        IN  /\ retained \subseteq pushed
            /\ Cardinality(retained) = Min2(Len(h_pushed), h_bound)
            /\ \A e \in retained : \A o \in pushed \ retained :
                  e.Value <= o.Value

\* C11 witness: a push on a full heap has removed an entry pushed earlier in
\* favour of a later entry of smaller score
C11_Witness ==
    /\ h_bound >= 2
    /\ Len(h_pushed) > h_bound
    /\ \E e \in Entries(Deref(h_interf)) :
          \E o \in Entries(h_pushed) \ Entries(Deref(h_interf)) :
              e.Image > o.Image /\ e.Value < o.Value

\* C12: in a view, of two entries of equal score the one pushed earlier
\* comes first (the entries carry their push number as Image).
C12_TiesByInsertionOrder ==
    IsView(h_ret) =>
        \A i \in 1 .. Len(h_ret[2]) : \A j \in i + 1 .. Len(h_ret[2]) :
            h_ret[2][i].Value = h_ret[2][j].Value
                => h_ret[2][i].Image < h_ret[2][j].Image

-----------------------------------------------------------------------------
(***************************************************************************)
(* Properties of the descriptor builder                                    *)
(***************************************************************************)

\* the first non-nil error of a sequence of outcomes, or Nil
FirstError(outcomes) ==
    LET failed == {n \in 1 .. Len(outcomes) : outcomes[n] # Nil}
    IN  IF failed = {} THEN Nil
        ELSE outcomes[CHOOSE n \in failed : \A m \in failed : n <= m]

\* the failures among the outcomes received (as indices of b_received)
FailedJobs == {n \in 1 .. Len(b_received) : b_received[n] # Nil}

\* C2: when the builder has returned: if a job failed, it returned the first
\* non-nil error the driver received and the nil array; if no job failed, it
\* returned a nil error and an array of N positions that all hold a descriptor.
C2_BuilderResult ==
    b_pc = "done" =>
        IF FailedJobs # {}
        THEN b_ret = <<Nil, FirstError(b_received)>>
        ELSE /\ b_ret[2] = Nil
             /\ b_ret[1] # Nil
             /\ Len(Deref(b_ret[1])) = Len(b_ids)
             /\ \A p \in 1 .. Len(b_ids) : Deref(b_ret[1])[p] # Nil

\* C2 witness: the builder returned after two failures, and the error it
\* returned is not the one of the lowest failed position
C2_Witness ==
    /\ b_pc = "done"
    /\ Cardinality(FailedJobs) >= 2
    /\ b_ret[2] # Nil
    /\ \E n \in FailedJobs : b_received[n][2] < b_ret[2][2]

\* C3: every job sends at most one outcome and the driver never receives more
\* than N; when the builder returns, every job has sent exactly one outcome and
\* the driver has received exactly N, failures or not, and none is left unread.
C3_ExactlyNOutcomes ==
    /\ \A p \in 1 .. Len(b_sent) : b_sent[p] <= 1
    /\ Len(b_received) <= Len(b_ids)
    /\ b_pc = "done" =>
          /\ Len(b_received) = Len(b_ids)
          /\ \A p \in 1 .. Len(b_sent) : b_sent[p] = 1
          /\ b_errorChan = <<>>

\* C3 witness: a list of MaxImages ids, the first outcome received was a
\* failure, and the builder returned after receiving all outcomes
C3_Witness ==
    /\ b_pc = "done"
    /\ Len(b_ids) = MaxImages
    /\ b_received[1] # Nil
    /\ Len(b_received) = MaxImages

\* C4: whatever the worker count and the scheduling, a descriptor stored at
\* output index i is the one computed for the id at input index i, no position
\* is written twice, and an array returned holds at every index i the
\* descriptor of ids[i].
C4_OutputOrder ==
    /\ \A p \in 1 .. Len(b_res) :
          /\ b_res[p] # Nil => b_res[p] = Descriptor(b_kind, b_ids[p])
          /\ Len(b_writes[p]) <= 1
    /\ (b_pc = "done" /\ b_ret[1] # Nil) =>
          Deref(b_ret[1]) = [p \in 1 .. Len(b_ids) |-> Descriptor(b_kind, b_ids[p])]

\* C4 witness: two workers, ids that differ from their positions, and a later
\* position written while an earlier one is still empty
C4_Witness ==
    /\ Len(b_workers) >= 2
    /\ Len(b_ids) = MaxImages
    /\ b_ids = Reversed(MaxImages)
    /\ b_res[1] = Nil
    /\ b_res[2] # Nil

-----------------------------------------------------------------------------
(***************************************************************************)
(* Properties of tile extraction                                           *)
(***************************************************************************)

\* C1: when DivideImage has returned, its error is the first non-nil outcome
\* the driver received: non-nil as soon as one tile extraction failed, and
\* nil only when every extraction succeeded.
C1_DivideFirstError ==
    d_pc = "done" => d_ret[2] = FirstError(d_received)

\* C5: InitTilesHelper given a worker count r <= 0 behaves as with r = 1: as
\* long as the call has not returned (or panicked), one of its goroutines can
\* take a step, so the call is never stuck.
C5_NonPositiveWorkerCount ==
    (t_numRoutines <= 0 /\ t_pc \in {"start", "divide", "loop"})
        => ENABLED NextTiles

-----------------------------------------------------------------------------
(***************************************************************************)
(* Properties of the selectors                                             *)
(***************************************************************************)

\* the tiles of a division, as records [i, j]
TileSet(dist) == {TileJobs(dist)[t] : t \in 1 .. NumTiles(dist)}

\* the image ids whose Compare succeeded in a scan
Succeeded(seen) == {id \in 0 .. Len(seen) - 1 : seen[id + 1].err = Nil}

\* the matrix SelectImages has returned
Returned == Deref(s_ret[1])

\* C6: SelectImages of each of the three selectors comes to a return, and the
\* matrix it returns has the shape of the tile division, with every cell an
\* image id of the database or NoImageID.  (Stated for the heap bounds
\* K # 0: with K = 0 the heaps themselves panic.)
C6_SelectionShape ==
    s_k # 0 =>
        /\ s_pc # "panic"
        /\ s_pc = "done" =>
              /\ Len(Returned) = Len(s_dist)
              /\ \A i \in 1 .. Len(s_dist) :
                    /\ Len(Returned[i]) = s_dist[i]
                    /\ \A j \in 1 .. s_dist[i] :
                          Returned[i][j] \in (0 .. s_numImages - 1) \cup {NoImageID}

RECURSIVE SucceededEntries(_, _)
SucceededEntries(seen, n) ==
    IF n = 0 THEN <<>>
    ELSE IF seen[n].err = Nil
         THEN Append(SucceededEntries(seen, n - 1),
                     NewImageHeapEntry(n - 1, seen[n].dist))
         ELSE SucceededEntries(seen, n - 1)

\* a new heap of the given bound after AddEntry of the first n of the
\* entries: its interf, and whether an AddEntry panicked
RECURSIVE AddAll(_, _, _)
AddAll(entries, n, bound) ==
    IF n = 0 THEN [interf |-> Ptr(<<>>), panic |-> FALSE]
    ELSE LET before == AddAll(entries, n - 1, bound)
         IN  IF before.panic THEN before
             ELSE IF before.interf = Nil THEN [interf |-> Nil, panic |-> TRUE]
             ELSE [interf |-> AddEntryTo(before.interf, bound, entries[n]),
                   panic |-> FALSE]

\* C8: a failed Compare keeps out that candidate only.  On every scanned tile
\* the minimizer's cell is NoImageID exactly when no Compare succeeded, and
\* else an id whose Compare succeeded; the tile's heap is what the calls of
\* Add for the ids whose Compare succeeded, in ascending order, make of a new
\* heap.  No error of Compare is in ComputeHeaps' err or channel, and none is
\* returned by SelectImages.
C8_CompareFailureSkipped ==
    /\ s_err = Nil
    /\ \A n \in 1 .. Len(s_errors) : s_errors[n] = Nil
    /\ s_ret # Nil => s_ret[2] # <<"Compare">>
    /\ \A i \in 1 .. Len(s_seen) : \A j \in 1 .. Len(s_seen[i]) :
          LET scan == s_seen[i][j]
              seen == Deref(scan)
          IN  scan # Nil =>
                IF s_sel = "min"
                THEN LET id == s_result[i][j]
                     IN  IF Succeeded(seen) = {} THEN id = NoImageID
                         ELSE id \in Succeeded(seen)
                ELSE LET entries == SucceededEntries(seen, Len(seen))
                         added == AddAll(entries, Len(entries), s_k)
                     IN  /\ s_heaps[i][j] = added.interf
                         /\ added.panic => s_pc = "panic"

\* a selector has returned a matrix, and on some tile Compare failed for id 0
\* and succeeded for id 1, which is the tile's id in the matrix
C8_Witness ==
    /\ s_pc = "done"
    /\ \E tile \in TileSet(s_dist) :
          LET seen == Deref(s_seen[tile.i + 1][tile.j + 1])
          IN  /\ Len(seen) >= 2
              /\ seen[1].err # Nil
              /\ seen[2].err = Nil
              /\ Returned[tile.i + 1][tile.j + 1] = 1

-----------------------------------------------------------------------------
(***************************************************************************)
(* Properties of the distance selector's walk                              *)
(***************************************************************************)

\* the t-th tile in row-major order, t = 1, 2, ..., and its origin
TileAt(t) == TileJobs(s_dist)[t]
OriginAt(t) == TileOrigin(TileAt(t).i, TileAt(t).j)

\* the id the matrix result holds for the t-th tile, and the tile's heap view
ChosenAt(t) == s_result[TileAt(t).i + 1][TileAt(t).j + 1]
ViewAt(t) == ViewOf(Deref(s_heaps[TileAt(t).i + 1][TileAt(t).j + 1]))

\* the Manhattan distance of two points
PointDist(p, q) ==
    (IF p.X >= q.X THEN p.X - q.X ELSE q.X - p.X)
        + (IF p.Y >= q.Y THEN p.Y - q.Y ELSE q.Y - p.Y)

\* the distances from the t-th tile's origin to the origins of the tiles
\* before it that were given candidate c
DistsBefore(t, c) ==
    {PointDist(OriginAt(t), OriginAt(u)) : u \in {v \in 1 .. t - 1 : ChosenAt(v) = c}}

\* at the t-th tile candidate c1 is at least as far as candidate c2: c1 has no
\* tile yet, or both have and c1's smallest distance is not the smaller one
AsFar(t, c1, c2) ==
    \/ DistsBefore(t, c1) = {}
    \/ /\ DistsBefore(t, c2) # {}
       /\ \E d2 \in DistsBefore(t, c2) : \A d1 \in DistsBefore(t, c1) : d2 <= d1

\* C13: the walk has passed the first s_pos tiles in row-major order.  For
\* each of them the id in the matrix is the first entry of the tile's heap
\* view that is at least as far from its own earlier tiles as every other
\* entry (a candidate without a tile is farthest), or NoImageID for an empty
\* view; the tiles not yet passed hold NoImageID; and currentAssignment holds
\* for every id the origins of the tiles passed that were given this id.
C13_DistancePick ==
    (s_sel = "distance" /\ s_pc \in {"select", "done"}) =>
        /\ \A t \in 1 .. s_pos :
              IF ViewAt(t) = <<>> THEN ChosenAt(t) = NoImageID
              ELSE \E m \in 1 .. Len(ViewAt(t)) :
                      /\ ChosenAt(t) = ViewAt(t)[m].Image
                      /\ \A n \in 1 .. Len(ViewAt(t)) :
                            AsFar(t, ViewAt(t)[m].Image, ViewAt(t)[n].Image)
                      /\ \A n \in 1 .. m - 1 :
                            ~AsFar(t, ViewAt(t)[n].Image, ViewAt(t)[m].Image)
        /\ \A t \in s_pos + 1 .. NumTiles(s_dist) : ChosenAt(t) = NoImageID
        /\ \A c \in DOMAIN s_assigned :
              /\ Entries(s_assigned[c])
                    = {OriginAt(u) : u \in {v \in 1 .. s_pos : ChosenAt(v) = c}}
              /\ Len(s_assigned[c])
                    = Cardinality({v \in 1 .. s_pos : ChosenAt(v) = c})

\* the walk has returned, and some tile was given a candidate that is not the
\* first of its view although every candidate of the view had a tile before
C13_Witness ==
    /\ s_sel = "distance"
    /\ s_pc = "done"
    /\ \E t \in 1 .. s_pos :
          /\ Len(ViewAt(t)) >= 2
          /\ ChosenAt(t) # ViewAt(t)[1].Image
          /\ \A n \in 1 .. Len(ViewAt(t)) : DistsBefore(t, ViewAt(t)[n].Image) # {}

\* C14: for one row of 4 tiles whose heap views are equal, the first tile is
\* given the first entry of the view, and for a view of at least 4 entries
\* the four tiles are given four different ids.
C14_FourTileRow ==
    (/\ s_sel = "distance"
     /\ s_pc = "done"
     /\ s_dist = <<4>>
     /\ \A t \in 1 .. 4 : ViewAt(t) = ViewAt(1)) =>
        /\ ViewAt(1) # <<>> => Returned[1][1] = ViewAt(1)[1].Image
        /\ Len(ViewAt(1)) >= 4 =>
              \A t \in 1 .. 4 : \A u \in 1 .. 4 :
                  t # u => Returned[1][t] # Returned[1][u]

\* the walk has returned the matrix for a row of 4 tiles with equal views of
\* at least 4 entries
C14_Witness ==
    /\ s_sel = "distance"
    /\ s_pc = "done"
    /\ s_dist = <<4>>
    /\ \A t \in 1 .. 4 : ViewAt(t) = ViewAt(1)
    /\ Len(ViewAt(1)) >= 4
    /\ Returned[1] = [t \in 1 .. 4 |-> ViewAt(1)[t].Image]

-----------------------------------------------------------------------------
(***************************************************************************)
(* Properties of the Image Cache                                           *)
(***************************************************************************)

\* the capacity of the cache made for the size given
Capacity == IF c_arg >= 1 THEN c_arg ELSE 1

\* the keys of a sequence of keys
KeySet(keys) == {keys[i] : i \in 1 .. Len(keys)}

RECURSIVE Fifo(_, _, _)
\* the keys a first-in-first-out cache of the given capacity holds after the
\* first n of the puts, oldest insertion first: a put of a key that is held
\* changes nothing, a put below capacity appends, a put at capacity drops the
\* oldest key and appends
Fifo(puts, n, capacity) ==
    IF n = 0 THEN <<>>
    ELSE LET before == Fifo(puts, n - 1, capacity)
             key == puts[n]
         IN  IF key \in KeySet(before) THEN before
             ELSE IF Len(before) < capacity THEN Append(before, key)
             ELSE Append(Tail(before), key)

\* the goroutines whose call is a Get of image id that has its return value
GetsOf(id) ==
    {g \in DOMAIN c_goroutines :
        /\ c_goroutines[g].pc = "unlock"
        /\ c_goroutines[g].op = "get"
        /\ c_goroutines[g].id = id}

\* C15: the cache evicts first-in-first-out by insertion order: the keys it
\* holds, and their order of eviction, are those of a first-in-first-out cache
\* after the puts made, whatever gets were made in between; with capacity 2,
\* after puts of (0,10,10), (1,10,10), (2,10,10) the key (0,10,10) is gone
\* and a get of it misses
C15_FifoEviction ==
    /\ c_insertOrder = Fifo(c_puts, Len(c_puts), Capacity)
    /\ DOMAIN c_content = KeySet(c_insertOrder)
    /\ (/\ Capacity = 2
        /\ c_puts = <<keyFormat(0, 10, 10), keyFormat(1, 10, 10),
                      keyFormat(2, 10, 10)>>)
       => /\ keyFormat(0, 10, 10) \notin DOMAIN c_content
          /\ \A g \in GetsOf(0) : c_goroutines[g].ret = Nil

\* capacity 2, the three puts made, and the get of (0,10,10) has missed
C15_Witness ==
    /\ c_arg = 2
    /\ c_puts = <<keyFormat(0, 10, 10), keyFormat(1, 10, 10),
                  keyFormat(2, 10, 10)>>
    /\ keyFormat(0, 10, 10) = <<"0", "-", "1", "0", "-", "1", "0">>
    /\ \E g \in GetsOf(0) : c_goroutines[g].ret = Nil

\* C16: the cache never holds more entries than its capacity, a size of zero
\* or less counting as capacity 1, whatever the interleaving of the
\* goroutines' gets and puts
C16_SizeBound ==
    /\ Cardinality(DOMAIN c_content) <= Capacity
    /\ Len(c_insertOrder) <= Capacity

\* a cache made with a size of zero or less, after puts of two keys by two
\* goroutines, holds one entry
C16_Witness ==
    /\ c_arg <= 0
    /\ Cardinality(KeySet(c_puts)) >= 2
    /\ Cardinality(DOMAIN c_content) = 1
    /\ \A g \in DOMAIN c_goroutines : c_goroutines[g].op = "put"

\* goroutine g takes the step that is the body of its Put
PutStep(g) ==
    /\ c_goroutines[g].pc = "body"
    /\ c_goroutines[g].op = "put"
    /\ c_goroutines'[g].pc = "unlock"

\* the key of the call goroutine g is in
KeyOf(g) ==
    keyFormat(c_goroutines[g].id, c_goroutines[g].width, c_goroutines[g].height)

InCriticalSection ==
    {g \in DOMAIN c_goroutines : c_goroutines[g].pc \in {"body", "unlock"}}

\* C18: Get and Put exclude each other: at no time are two calls between
\* their Lock and their Unlock
C18_MutualExclusion == Cardinality(InCriticalSection) <= 1

\* one goroutine is in a Put while the other waits for the mutex with a Get
\* of the same key
C18_Witness ==
    \E g, o \in DOMAIN c_goroutines :
        /\ c_goroutines[g].pc = "body"
        /\ c_goroutines[g].op = "put"
        /\ c_goroutines[o].pc = "lock"
        /\ c_goroutines[o].op = "get"
        /\ c_goroutines[o].id = c_goroutines[g].id

-----------------------------------------------------------------------------
(***************************************************************************)
(* Properties of ComposeMosaic                                             *)
(***************************************************************************)

\* the tiles (i, j) of the selection matrix, counted from 1
ComposeTiles ==
    {t \in (DOMAIN m_symbolicTiles) \X (1 .. 2) :
        t[2] \in DOMAIN m_symbolicTiles[t[1]]}

\* the points of the image res that lie in the rectangle of tile t
PointsOfTile(t) ==
    Points(m_mosaicDivison[t[1]][t[2]]) \cap DOMAIN Deref(m_res).Pix

\* the keys of the image id none in the cache
NoneKeys ==
    {keyFormat(NoImageID, w, h) : w \in 0 .. MaxTileSize, h \in 0 .. MaxTileSize}

\* C19: for a tile whose selected id is NoImageID the composer loads no image
\* from the storage, looks nothing up in the cache and inserts nothing into
\* it, the tile's pixels keep the zero value, and the composition goes on
\* with the next tile
C19_NoneTileSkipped ==
    /\ m_pc # "panic"
    /\ \A k \in DOMAIN m_loads : m_loads[k] # NoImageID
    /\ \A k \in DOMAIN m_lookups : m_lookups[k].id # NoImageID
    /\ \A k \in DOMAIN c_puts : c_puts[k] \notin NoneKeys
    /\ m_pc = "done" =>
           \A t \in ComposeTiles :
               m_symbolicTiles[t[1]][t[2]] = NoImageID
                   => \A p \in PointsOfTile(t) : Deref(m_res).Pix[p] = 0

\* the rectangle of the output: from (0, 0) to the far corner of the last tile
OutputRect ==
    LET n == Len(m_symbolicTiles)
        lastTile == m_mosaicDivison[n][Len(m_symbolicTiles[n])]
    IN  Rect(0, 0, lastTile.Max.X, lastTile.Max.Y)

\* C20: when the selection matrix is not empty but the rectangle of the
\* output is empty, ComposeMosaic returns an error and no image
C20_EmptyMosaicFails ==
    (/\ m_pc = "done"
     /\ Len(m_symbolicTiles) >= 1
     /\ Len(m_symbolicTiles[Len(m_symbolicTiles)]) >= 1
     /\ Empty(OutputRect))
        => (m_ret[1] = Nil /\ m_ret[2] # Nil)

\* the tiles whose selected image the storage cannot load
Unloadable ==
    {t \in ComposeTiles : m_symbolicTiles[t[1]][t[2]] \notin m_readable}

\* C21: a failure to load the image of one tile skips only that tile: no
\* load failure ends the composition, and when ComposeMosaic returns it
\* returns the image and a nil error, with the pixels of every tile whose
\* image loads set to that image and an error of insertTile for exactly the
\* tiles whose image does not load
C21_LoadFailureSkipsTile ==
    /\ m_pc = "panic" => m_loads[Len(m_loads)] = NoImageID
    /\ (m_pc = "done" /\ c_arg = ImageCacheSize) =>
           /\ m_ret = <<m_res, Nil>>
           /\ \A t \in ComposeTiles \ Unloadable :
                  \A p \in PointsOfTile(t) :
                      Deref(m_res).Pix[p] = m_symbolicTiles[t[1]][t[2]] + 1
           /\ \A t \in Unloadable :
                  \A p \in PointsOfTile(t) : Deref(m_res).Pix[p] = 0
           /\ Cardinality({k \in DOMAIN m_errs : m_errs[k] # Nil})
                  = Cardinality(Unloadable)

\* ComposeMosaic has returned: the first tile's image did not load, and the
\* tile after it has its pixels
C21_Witness ==
    /\ m_pc = "done"
    /\ Len(m_errs) >= 2
    /\ m_errs[1] # Nil
    /\ m_errs[2] = Nil
    /\ m_ret[2] = Nil
    /\ \E p \in DOMAIN Deref(m_res).Pix : Deref(m_res).Pix[p] # 0

-----------------------------------------------------------------------------
(***************************************************************************)
(* Properties of the image dividers                                        *)
(***************************************************************************)

\* the rectangles of the division returned
Produced ==
    {Deref(g_res)[i][j] : <<i, j>> \in
        {t \in (DOMAIN Deref(g_res)) \X (1 .. MaxNum + MaxSide + 2) :
            t[2] \in DOMAIN Deref(g_res)[t[1]]}}

\* the points of the rectangles of the division returned
ProducedPoints == UNION {Points(r) : r \in Produced}

\* C23: a FixedNumDivider with Cut = false, NumX and NumY at least 1, on a
\* rectangle that is not empty: the union of the rectangles it returns is
\* the rectangle given, also when NumX exceeds its width or NumY its height
C23_NoCutCoversInput ==
    (/\ g_pc = "done"
     /\ g_divider.kind = "num"
     /\ ~g_divider.Cut
     /\ g_divider.NumX >= 1
     /\ g_divider.NumY >= 1
     /\ ~Empty(g_bounds))
        => ProducedPoints = Points(g_bounds)

\* C24: a FixedNumDivider with Cut = true, NumX and NumY at least 1: every
\* rectangle it returns lies inside the rectangle given
C24_CutStaysInside ==
    (/\ g_pc = "done"
     /\ g_divider.kind = "num"
     /\ g_divider.Cut
     /\ g_divider.NumX >= 1
     /\ g_divider.NumY >= 1)
        => ProducedPoints \subseteq Points(g_bounds)

\* C25: a FixedSizeDivider in mode DivideCrop on a rectangle that is not
\* empty: no rectangle it returns has its far edge beyond the far edge of
\* the rectangle given, also when Width exceeds its width or Height its
\* height
C25_CropWithinFarEdge ==
    (/\ g_pc = "done"
     /\ g_divider.kind = "size"
     /\ g_divider.Mode = "DivideCrop"
     /\ ~Empty(g_bounds))
        => \A r \in Produced :
               r.Max.X <= g_bounds.Max.X /\ r.Max.Y <= g_bounds.Max.Y

-----------------------------------------------------------------------------
(***************************************************************************)
(* Properties of ParseCommand                                              *)
(***************************************************************************)

\* the token list with the token that was being read as its last token
WithPartialToken == <<Ptr(Append(k_res, k_currentArg)), Nil>>

\* ParseCommand has returned from the iteration that found the end of input
EndedAtEOF == k_pc = "done" /\ k_i = Len(k_r)

\* C26 as stated: when the input ends inside an unquoted token, or inside a
\* quoted token whose closing quote has not been seen, the token read so far
\* is emitted as the last token
C26_PartialTokenAccepted ==
    (EndedAtEOF /\ k_state \in {1, 3}) => k_ret = WithPartialToken

\* C26, amended: when the input ends inside an unquoted token the token read
\* so far is emitted as the last token; when it ends inside a quoted token
\* whose closing quote has not been seen ParseCommand returns the syntax
\* error and no token list
C26_PartialUnquotedTokenAccepted ==
    /\ (EndedAtEOF /\ k_state = 1) =>
           (k_currentArg # <<>> /\ k_ret = WithPartialToken)
    /\ (EndedAtEOF /\ k_state = 3) => k_ret = <<Nil, parseErr>>

\* the input ended inside an unquoted token that follows another token
C26_Witness ==
    /\ EndedAtEOF
    /\ k_state = 1
    /\ Len(k_res) >= 1
    /\ k_ret = WithPartialToken

\* C27: in the escape states 2 (unquoted) and 4 (quoted) a backslash or a
\* double quote is appended to the current token and the automaton goes on;
\* any other rune, and the end of input, ends ParseCommand with the syntax
\* error and no token list
C27_EscapeOnlyBackslashOrQuote ==
    [][(k_pc = "loop" /\ k_state \in {2, 4}) =>
          IF k_i < Len(k_r) /\ k_r[k_i + 1] \in {"\\", "\""}
          THEN /\ k_currentArg' = Append(k_currentArg, k_r[k_i + 1])
               /\ k_res' = k_res
               /\ k_state' = k_state - 1
               /\ k_pc' = "loop"
               /\ k_ret' = Nil
          ELSE /\ k_pc' = "done"
               /\ k_ret' = <<Nil, parseErr>>]_vars

\* ParseCommand has returned the error for another rune after a backslash in
\* a quoted argument
C27_Witness ==
    /\ k_pc = "done"
    /\ k_state = 4
    /\ k_i < Len(k_r)
    /\ k_r[k_i + 1] = "a"
    /\ k_ret = <<Nil, parseErr>>

RECURSIVE EscapeToken(_)
\* a token with a backslash before every double quote and backslash
EscapeToken(t) ==
    IF t = <<>> THEN <<>>
    ELSE (IF Head(t) \in {"\\", "\""} THEN <<"\\", Head(t)>> ELSE <<Head(t)>>)
         \o EscapeToken(Tail(t))

RECURSIVE JoinEscaped(_)
\* the escaped tokens joined with single spaces
JoinEscaped(tokens) ==
    IF tokens = <<>> THEN <<>>
    ELSE IF Len(tokens) = 1 THEN EscapeToken(tokens[1])
    ELSE EscapeToken(tokens[1]) \o <<" ">> \o JoinEscaped(Tail(tokens))

\* ParseCommand has returned a token list
Tokenized == k_pc = "done" /\ k_ret[2] = Nil

\* a token that is not empty and holds no space
PlainToken(t) == t # <<>> /\ \A n \in DOMAIN t : t[n] # " "

\* C28 as stated: for every input that tokenizes, the escaped tokens joined
\* with single spaces tokenize to the same token list, also with tokens that
\* hold spaces and with empty tokens
C28_RoundTrip ==
    Tokenized => ParseCommand(JoinEscaped(Deref(k_ret[1]))) = k_ret

\* C28, amended: for every input that tokenizes into tokens that are not
\* empty and hold no space, the escaped tokens joined with single spaces
\* tokenize to the same token list
C28_RoundTripPlainTokens ==
    (Tokenized /\ \A n \in DOMAIN Deref(k_ret[1]) : PlainToken(Deref(k_ret[1])[n]))
        => ParseCommand(JoinEscaped(Deref(k_ret[1]))) = k_ret

\* two tokens without spaces, one of them with a double quote
C28_Witness ==
    /\ Tokenized
    /\ Len(Deref(k_ret[1])) = 2
    /\ \A n \in DOMAIN Deref(k_ret[1]) : PlainToken(Deref(k_ret[1])[n])
    /\ \E n \in DOMAIN Deref(k_ret[1]) :
           \E q \in DOMAIN Deref(k_ret[1])[n] : Deref(k_ret[1])[n][q] = "\""

-----------------------------------------------------------------------------
(***************************************************************************)
(* Properties of LCH.Dist                                                  *)
(***************************************************************************)

\* the two LCHs hold a different number of histograms
CountMismatch == Len(l_lch) # Len(l_other)

\* the aligned histograms of one index have a different number of entries
PairMismatch(i) == Len(l_lch[i]) # Len(l_other[i])

DimensionMismatch ==
    CountMismatch \/ \E i \in DOMAIN l_lch : PairMismatch(i)

\* C29: LCH.Dist returns an error instead of a distance whenever the two
\* LCHs hold a different number of histograms and whenever some pair of
\* aligned histograms has different dimensions; the histogram metric is
\* never evaluated on a mismatched pair (so Dist always returns).
C29_DimensionErrors ==
    /\ l_pc # "panic"
    /\ (l_pc = "done" /\ DimensionMismatch) => l_ret[2] # Nil
    /\ \A i \in l_evaluated : ~PairMismatch(i)

-----------------------------------------------------------------------------
(***************************************************************************)
(* Properties of the FSMapper                                              *)
(***************************************************************************)

\* C30: an id that a registration assigned to an image is never assigned
\* to a different image, over any sequence of Register, Clear and Load.
C30_IdNeverReused ==
    \A x \in f_assigned : \A y \in f_assigned : x[1] = y[1] => x[2] = y[2]

-----------------------------------------------------------------------------
(***************************************************************************)
(* Properties of the pipeline                                              *)
(***************************************************************************)

\* every jobs channel of the run has been closed, so that every worker that
\* waits on it leaves its loop
AllJobsClosed == d_closed /\ t_closed /\ s_closed

\* C22: an empty source rectangle gives a division without rows; InitTiles
\* and the selection on it return without an error, the selection being the
\* matrix without rows; ComposeMosaic returns the empty image and a nil
\* error; and no step of the run blocks: until ComposeMosaic has returned
\* and every jobs channel is closed, some step can be taken.
C22_EmptyInputPropagates ==
    Empty(g_bounds) =>
        /\ g_pc = "done" => Deref(g_res) = <<>>
        /\ t_pc # "divfail"
        /\ t_pc = "done" => t_ret = <<Nil>>
        /\ s_pc \notin {"failed", "panic"}
        /\ s_pc = "done" => s_ret = <<Ptr(<<>>), Nil>>
        /\ m_pc # "panic"
        /\ m_pc = "done" => m_ret = <<Ptr(NewRGBA(ZR)), Nil>>
        /\ (m_pc = "done" /\ AllJobsClosed) \/ ENABLED NextPipeline

\* the run on an empty source is over, with a metric of no worker
C22_Witness ==
    /\ Empty(g_bounds)
    /\ t_numRoutines = 0
    /\ m_pc = "done"
    /\ AllJobsClosed
    /\ ~ENABLED NextPipeline

-----------------------------------------------------------------------------
(***************************************************************************)
(* Properties of the descriptor builder: progress and termination          *)
(***************************************************************************)

\* C33: with a progress callback, the callback has been called once per
\* received outcome, and the argument of the n-th call is n, the number of
\* outcomes received so far.
C33_ProgressCountsOutcomes ==
    b_progressSet =>
        /\ Len(b_progress) = Len(b_received)
        /\ \A n \in DOMAIN b_progress : b_progress[n] = n

\* the call has returned, the producer has closed jobs after its last send
\* and every worker has left its loop
BuilderAtRest ==
    /\ b_pc = "done"
    /\ b_next = Len(b_ids)
    /\ b_closed
    /\ \A w \in DOMAIN b_workers : b_workers[w].pc = "exit"

\* C38: CreateHistograms / CreateLCHs returns, and the producer and all the
\* workers terminate, for every number of ids (also above BufferSize), every
\* worker count and every pattern of failing jobs.
C38_BuilderTerminates == <>[]BuilderAtRest

\* at rest after more jobs than a channel holds, two workers, and a job that
\* failed
C38_Witness ==
    /\ BuilderAtRest
    /\ Len(b_ids) > BufferSize
    /\ Len(b_workers) >= 2
    /\ \E n \in DOMAIN b_received : b_received[n] # Nil

-----------------------------------------------------------------------------
(***************************************************************************)
(* Properties of InitTilesHelper                                           *)
(***************************************************************************)

\* the tiles (i, j) of the division given to InitTilesHelper
HelperTiles ==
    {tile \in (0 .. Len(t_dist) - 1) \X (0 .. MaxTiles) :
        tile[2] < t_dist[tile[1] + 1]}

\* the calls of onTile made for a tile
CallsOf(tile) == {n \in DOMAIN t_calls : t_calls[n] = tile}

\* the tiles whose onTile returned an error that the driver has received
FailedTiles ==
    {<<t_received[n][2], t_received[n][3]>> :
        n \in {q \in DOMAIN t_received : t_received[q] # Nil}}

\* InitTilesHelper has returned after its loop
HelperReturned == t_pc = "done"

\* no call of onTile is running or has an outcome on its way: the driver has
\* received the outcome of every call made
HelperJoined ==
    /\ Len(t_received) = Len(t_calls)
    /\ t_jobs = <<>>
    /\ t_errors = <<>>
    /\ \A w \in DOMAIN t_workers : t_workers[w].pc # "send"

\* C36 as stated: when InitTilesHelper returns, onTile has run exactly once
\* for every tile, every cell of TileData has been written, and no callback
\* is still running, also when a callback reported an error.
C36_EveryCellWritten ==
    HelperReturned =>
        /\ \A tile \in HelperTiles : Cardinality(CallsOf(tile)) = 1
        /\ Len(t_calls) = NumTiles(t_dist)
        /\ HelperJoined
        /\ \A tile \in HelperTiles : t_tileData[tile[1] + 1][tile[2] + 1] # Nil

\* C36, amended: when InitTilesHelper returns, onTile has run exactly once
\* for every tile and no callback is still running, also when a callback
\* reported an error; the cell of a tile has been written (once, by the
\* tile's one callback) exactly if that callback returned nil.
C36_EveryTileCalledOnceAndJoined ==
    HelperReturned =>
        /\ \A tile \in HelperTiles : Cardinality(CallsOf(tile)) = 1
        /\ Len(t_calls) = NumTiles(t_dist)
        /\ HelperJoined
        /\ \A tile \in HelperTiles :
               IF tile \in FailedTiles
               THEN t_tileData[tile[1] + 1][tile[2] + 1] = Nil
               ELSE t_tileData[tile[1] + 1][tile[2] + 1] =
                        TileDescriptor(t_metric, tile[1], tile[2])

\* the helper has returned on three tiles (more than the channels hold) with
\* two workers, one callback having failed
C36_Witness ==
    /\ HelperReturned
    /\ NumTiles(t_dist) = 3
    /\ Len(t_workers) = 2
    /\ Cardinality(FailedTiles) = 1

-----------------------------------------------------------------------------
(***************************************************************************)
(* Properties of HeapImageSelector.SelectImages: its phases                *)
(***************************************************************************)

\* the cells (i, j) of the division given to SelectImages
SelCells ==
    {tile \in (1 .. Len(s_dist)) \X (1 .. MaxTiles) : tile[2] <= s_dist[tile[1]]}

\* Select has been called: ComputeHeaps has returned a nil error
PickPhase == s_sel # "min" /\ (s_pc = "select" \/ s_pos > 0 \/ s_views # Nil)

\* C37: SelectImages of a heap selector runs in disjoint phases.  Until
\* InitTiles has returned no heap is made and no worker exists.  Once Select
\* has been called every tile's heap computation is over: all jobs have been
\* sent and taken, every outcome has been received, no worker holds an
\* outcome and none can take a job.  The picks are made by the one loop of
\* Select, tile by tile: a tile that the loop has not reached has no pick.
C37_DisjointPhases ==
    /\ s_pc = "start" =>
           s_workers = <<>> /\ s_heaps = <<>> /\ s_jobs = <<>> /\ s_next = 0
    /\ PickPhase =>
           /\ \A tile \in SelCells : s_seen[tile[1]][tile[2]] # Nil
           /\ s_jobs = <<>>
           /\ s_errors = <<>>
           /\ \A w \in DOMAIN s_workers : s_workers[w].pc = "recv"
           /\ ~ENABLED (\E w \in DOMAIN s_workers : SelHeapWork(w))
    /\ (PickPhase /\ s_sel = "distance") =>
           \A t \in s_pos + 1 .. NumTiles(s_dist) :
               s_result[TileJobs(s_dist)[t].i + 1][TileJobs(s_dist)[t].j + 1]
                   = NoImageID

\* the random selector between its first and its second pick, after two
\* workers have computed the heaps
C37_Witness ==
    /\ s_sel = "random"
    /\ s_pc = "select"
    /\ Len(s_workers) = 2
    /\ NumTiles(s_dist) = 2
    /\ s_pos = 1

-----------------------------------------------------------------------------
(***************************************************************************)
(* Properties of ImageMetricMinimizer.SelectImages: progress               *)
(***************************************************************************)

\* the number of tiles a worker has fully scored (its wg.Done() is made)
TilesScored == NumTiles(s_dist) - s_wg

\* C39: the minimizer's progress call with the value n is made only after n
\* tiles have been fully scored, and every progress call has been made when
\* SelectImages returns.
C39_ProgressAfterScoring ==
    (s_sel = "min" /\ s_pc \in {"score", "done"}) =>
        /\ \A n \in DOMAIN s_progress : s_progress[n] = n
        /\ Len(s_progress) <= TilesScored
        /\ s_pc = "done" => Len(s_progress) = NumTiles(s_dist)

-----------------------------------------------------------------------------
(***************************************************************************)
(* Properties of the Image Cache: consistency of its two fields            *)
(***************************************************************************)

-----------------------------------------------------------------------------
(***************************************************************************)
(* Properties of the histogram metrics                                     *)
(***************************************************************************)

\* C34: the Canberra distance of two histograms whose entries are not
\* negative is never NaN: a position at which both hold 0 adds 0 to the sum.
C34_CanberraNeverNaN ==
    (/\ r_ret[1] = "dist"
     /\ r_ret[2] = "CanberraDistance"
     /\ ~r_ret[5].panic)
        => r_ret[5].value.kind # "NaN"

\* C35: after init() the registry holds the six names manhattan, euclidean,
\* min, cosine, chessboard and canberra, and a lookup of "euclidean" on it
\* returns the Euclidean distance.
C35_EuclideanRegistered ==
    /\ r_ret = <<"init">> =>
         DOMAIN r_histogramMetrics =
             {"manhattan", "euclidean", "min", "cosine", "chessboard",
              "canberra"}
    /\ (r_ops = 1 /\ r_ret[1] = "get" /\ r_ret[2] = "euclidean") =>
         r_ret[3] = <<Ptr(HistogramVectorMetric("EuclideanDistance")), TRUE>>


-----------------------------------------------------------------------------
(***************************************************************************)
(* Properties of the command loop and of the commands                      *)
(***************************************************************************)

\* the tokens of the line n of the script, <<>> when it does not parse
TokensOf(n) ==
    IF ParsedLines[e_lines[n]][2] # Nil THEN <<>>
    ELSE Deref(ParsedLines[e_lines[n]][1])

\* the line n is a "storage load" command
IsStorageLoad(n) ==
    /\ Len(TokensOf(n)) >= 2
    /\ TokensOf(n)[1] = Words.storage
    /\ TokensOf(n)[2] = Words.load

\* the line n is a "mosaic" command
IsMosaic(n) == Len(TokensOf(n)) >= 1 /\ TokensOf(n)[1] = Words.mosaic

\* the state right after the last iteration is the state after a "storage
\* load" command
AfterStorageLoad == Len(e_log) > 0 /\ IsStorageLoad(Len(e_log))

\* C31 as stated: after every "storage load" command, whether it succeeds or
\* fails, the GCH storage and the LCH storage are unset.
C31_LoadUnsetsStorages ==
    AfterStorageLoad => e_GCHStorage = Nil /\ e_LCHStorage = Nil

\* C31, amended: a "storage load" command whose arguments are accepted
\* leaves both storages unset, whether Load succeeds or fails; one that is
\* rejected for its arguments leaves the mapper and the storages as they
\* were.  So a storage that is set is built for the mapper's images, and so
\* is the storage that a successful "mosaic" command has used.
C31_LoadInvalidates ==
    /\ AfterStorageLoad =>
         IF e_log[Len(e_log)].err \in {boolErr, pathErr}
         THEN State = e_log[Len(e_log)].before
         ELSE e_GCHStorage = Nil /\ e_LCHStorage = Nil
    /\ e_GCHStorage # Nil => e_GCHStorage = StorageFor(e_Mapper)
    /\ e_LCHStorage # Nil => e_LCHStorage = StorageFor(e_Mapper)
    /\ \A n \in DOMAIN e_log :
         (IsMosaic(n) /\ e_log[n].kind = "OnSuccess") =>
             e_log[n].before.GCHStorage = StorageFor(e_log[n].before.Mapper)

\* a script loads images, builds the GCH storage for them, and loads again;
\* the second Load fails
C31_Witness ==
    /\ Len(e_log) = 3
    /\ IsStorageLoad(3)
    /\ e_log[3].err = loadErr
    /\ Len(e_log[3].before.Mapper.IDMapping) > 0
    /\ e_log[3].before.GCHStorage # Nil
    /\ e_GCHStorage = Nil

\* the iteration n ended in OnParseErr, OnInvalidCmd or OnError
Failed(n) == e_log[n].kind \in {"OnParseErr", "OnInvalidCmd", "OnError"}

\* C32: Execute takes the lines in order, one iteration per line.  A line
\* that does not parse ends in OnParseErr, a line that names an unknown
\* command in OnInvalidCmd, a command that returns an error in OnError.  With
\* the ScriptHandler the first such line is the last line processed and
\* Execute has returned after it; Execute returns early only there.
C32_StopsAtFirstFailure ==
    /\ Len(e_log) = e_pos
    /\ \A n \in DOMAIN e_log :
         /\ e_log[n].line = n
         /\ ParsedLines[e_lines[n]][2] # Nil => e_log[n].kind = "OnParseErr"
         /\ (TokensOf(n) # <<>> /\ TokensOf(n)[1] \notin commandMap)
                => e_log[n].kind = "OnInvalidCmd"
         /\ (TokensOf(n) # <<>> /\ TokensOf(n)[1] \in commandMap)
                => e_log[n].kind = IF e_log[n].err = Nil THEN "OnSuccess"
                                   ELSE "OnError"
         /\ (Failed(n) /\ e_handler = "script")
                => n = Len(e_log) /\ e_pc = "returned"
    /\ e_pc = "returned" =>
         e_handler = "script" /\ Len(e_log) > 0 /\ Failed(Len(e_log))
    /\ e_pc = "eof" => e_pos = Len(e_lines)

\* a script of three commands whose second command returns an error: the
\* third is not executed
C32_Witness ==
    /\ e_handler = "script"
    /\ Len(e_lines) = 3
    /\ IsStorageLoad(3)
    /\ e_pc = "returned"
    /\ Len(e_log) = 2
    /\ e_log[1].kind = "OnSuccess"
    /\ e_log[2].kind = "OnError"

=============================================================================
